---- MODULE Spec2Model ----
(***************************************************************************)
(* gotsync: the schema mapper (src/core/utils/typeMapper.ts) and the two   *)
(* emitters (src/core/generator/go.ts, src/core/generator/ts.ts).          *)
(*                                                                         *)
(* Strings the code builds or transforms (type names, property names, enum *)
(* values) are sequences of one-character strings, so that concatenation,  *)
(* case conversion and splitting are computed as the code computes them.   *)
(* Emitted text is a sequence of declarations, a declaration a sequence of *)
(* lines, a line a sequence of tokens (fixed template text is one token,   *)
(* a computed string contributes its characters).                          *)
(***************************************************************************)
EXTENDS Integers, Sequences, FiniteSets, TLC

\* Nested mapping calls the runtime accepts before it raises RangeError
\* (maximum call stack size exceeded).
MaxDepth == 6

\* Two mapSchemaCollection calls, one after the other, on the same input.
Runs == {1, 2}

(***************************************************************************)
(* Characters and strings                                                  *)
(***************************************************************************)
Lowers == <<"a","b","c","d","e","f","g","h","i","j","k","l","m",
            "n","o","p","q","r","s","t","u","v","w","x","y","z">>
Uppers == <<"A","B","C","D","E","F","G","H","I","J","K","L","M",
            "N","O","P","Q","R","S","T","U","V","W","X","Y","Z">>
Digits == <<"0","1","2","3","4","5","6","7","8","9">>

IsUpperChar(c) == \E i \in 1..26 : Uppers[i] = c
IsLowerChar(c) == \E i \in 1..26 : Lowers[i] = c

toUpperCaseChar(c) ==
  IF IsLowerChar(c) THEN Uppers[CHOOSE i \in 1..26 : Lowers[i] = c] ELSE c

toLowerCaseChar(c) ==
  IF IsUpperChar(c) THEN Lowers[CHOOSE i \in 1..26 : Uppers[i] = c] ELSE c

toLowerCase(str) == [i \in 1..Len(str) |-> toLowerCaseChar(str[i])]

\* [-_\s] of the camel-case regular expression
IsSeparator(c) == c \in {"-", "_", " "}

\* String(n) for a non-negative integer
RECURSIVE NumberToString(_)
NumberToString(n) ==
  IF n < 10 THEN <<Digits[n + 1]>>
  ELSE NumberToString(n \div 10) \o <<Digits[(n % 10) + 1]>>

RECURSIVE Flatten(_)
Flatten(seqs) ==
  IF seqs = <<>> THEN <<>> ELSE Head(seqs) \o Flatten(Tail(seqs))

\* str.charAt(0).toUpperCase() + str.slice(1)
capitalizeFirst(str) ==
  IF str = <<>> THEN <<>> ELSE <<toUpperCaseChar(Head(str))>> \o Tail(str)

\* str.charAt(0).toLowerCase() + str.slice(1)
uncapitalizeFirst(str) ==
  IF str = <<>> THEN <<>> ELSE <<toLowerCaseChar(Head(str))>> \o Tail(str)

\* str.replace(/[-_\s]+(.)?/g, (_, char) => char ? char.toUpperCase() : '')
\* up: the previous character closed a run of separators
RECURSIVE CamelFrom(_, _)
CamelFrom(str, up) ==
  IF str = <<>> THEN <<>>
  ELSE IF IsSeparator(Head(str)) THEN CamelFrom(Tail(str), TRUE)
  ELSE <<IF up THEN toUpperCaseChar(Head(str)) ELSE Head(str)>>
         \o CamelFrom(Tail(str), FALSE)

toCamelCase(str) == CamelFrom(str, FALSE)

toPascalCase(str) == capitalizeFirst(toCamelCase(str))

\* str.replace(/([A-Z])/g, sep + '$1')
RECURSIVE PrefixUppers(_, _)
PrefixUppers(str, sep) ==
  IF str = <<>> THEN <<>>
  ELSE (IF IsUpperChar(Head(str)) THEN <<sep, Head(str)>> ELSE <<Head(str)>>)
         \o PrefixUppers(Tail(str), sep)

\* .replace(/^sep/, '')
DropLeading(str, sep) ==
  IF str # <<>> /\ Head(str) = sep THEN Tail(str) ELSE str

toSnakeCase(str) == DropLeading(toLowerCase(PrefixUppers(str, "_")), "_")

toKebabCase(str) == DropLeading(toLowerCase(PrefixUppers(str, "-")), "-")

\* TypeMapperOptions: namingStrategy "" is an absent strategy, typePrefix and
\* typeSuffix <<>> are absent (or empty, which the code treats the same).
formatTypeName(name, options) ==
  LET formatted ==
        IF options.preserveOriginalNames THEN name
        ELSE CASE options.namingStrategy = "camelCase"  -> toCamelCase(name)
               [] options.namingStrategy = "PascalCase" -> toPascalCase(name)
               [] options.namingStrategy = "snake_case" -> toSnakeCase(name)
               [] options.namingStrategy = "kebab-case" -> toKebabCase(name)
               [] OTHER -> name
  IN options.typePrefix \o formatted \o options.typeSuffix

\* ref.split('/'): a $ref is kept as the sequence of its segments
extractReferenceTypeName(ref) ==
  IF ref = <<>> THEN <<>> ELSE ref[Len(ref)]

isPrimitiveType(type) ==
  type \in {"string", "number", "integer", "boolean", "null"}

mapOpenAPITypeToPrimitive(type) ==
  CASE type = "string"  -> "string"
    [] type = "number"  -> "number"
    [] type = "integer" -> "integer"
    [] type = "boolean" -> "boolean"
    [] type = "null"    -> "null"
    [] OTHER -> "string"

(***************************************************************************)
(* Schema nodes (OpenAPIV3.SchemaObject / ReferenceObject)                 *)
(*                                                                         *)
(* has: the keys present among $ref, allOf, oneOf, anyOf, enum, items,     *)
(* properties, required.  additionalProperties is "absent", "false",       *)
(* "true" or "schema" (then apNode is the schema).  Child schemas are      *)
(* named by their index in Heap, so that a dereferenced document can       *)
(* contain a schema that is its own descendant.  type "undefined" is an    *)
(* absent type; any other unlisted value is an unrecognised one.           *)
(***************************************************************************)
NoConstraints ==
  [minimum |-> -1, maximum |-> -1, minLength |-> -1, maxLength |-> -1,
   pattern |-> "", minItems |-> -1, maxItems |-> -1, uniqueItems |-> FALSE]

S0 ==
  [has |-> {}, ref |-> <<>>, type |-> "undefined", enum |-> <<>>,
   allOf |-> <<>>, oneOf |-> <<>>, anyOf |-> <<>>, items |-> 0,
   properties |-> <<>>, required |-> <<>>,
   additionalProperties |-> "absent", apNode |-> 0,
   discriminator |-> <<>>, description |-> "", nullable |-> FALSE,
   default |-> "", example |-> "", format |-> "", deprecated |-> FALSE,
   readOnly |-> FALSE, writeOnly |-> FALSE, constraints |-> NoConstraints]

\* names used by the inputs
nA      == <<"A">>
nB      == <<"B">>
nNode   == <<"N","o","d","e">>
nA_b    == <<"A","_","b">>
na_b    == <<"a","_","b">>
naB     == <<"a","B">>
nUser   == <<"U","s","e","r">>
nMissing == <<"M","i","s","s">>
pid     == <<"i","d">>
pb      == <<"b">>
pc      == <<"c">>
pb_c    == <<"b","_","c">>
pnext   == <<"n","e","x","t">>
ptags   == <<"t","a","g","s">>
pemail  == <<"e","m","a","i","l">>
ptype   == <<"t","y","p","e">>

\* '#/defs/<name>'
RefTo(name) == << <<"#">>, <<"d","e","f","s">>, name >>

StrValue(s) == [str |-> TRUE, s |-> s, n |-> 0]
NumValue(n) == [str |-> FALSE, s |-> <<>>, n |-> n]

P(name, node) == [name |-> name, node |-> node]

Primitive(t) == [S0 EXCEPT !.type = t]
RefNode(name) == [S0 EXCEPT !.has = {"$ref"}, !.ref = RefTo(name)]
EnumNode(t, vals) == [S0 EXCEPT !.type = t, !.has = {"enum"}, !.enum = vals]
ArrayNode(item) == [S0 EXCEPT !.type = "array", !.has = {"items"}, !.items = item]
ObjectNode(props, req) ==
  [S0 EXCEPT !.type = "object", !.has = {"properties", "required"},
             !.properties = props, !.required = req]

Heap ==
  << Primitive("string"),                                              \* 1
     [Primitive("integer") EXCEPT !.nullable = TRUE,
        !.description = "count",
        !.constraints = [NoConstraints EXCEPT !.minimum = 0]],         \* 2
     EnumNode("string", <<StrValue(<<"o","n">>),
                          StrValue(<<"o","f","f">>)>>),                \* 3
     ArrayNode(1),                                                     \* 4
     [S0 EXCEPT !.type = "array"],                                     \* 5
     ObjectNode(<<P(pid, 1), P(ptags, 4), P(pemail, 2)>>,
                <<pid, ptags>>),                                       \* 6
     ObjectNode(<<P(pnext, 7)>>, <<>>),                                \* 7
     ObjectNode(<<P(pc, 9)>>, <<>>),                                   \* 8
     ObjectNode(<<P(pb, 8)>>, <<pb>>),                                 \* 9
     ObjectNode(<<P(pid, 1), P(pnext, 11)>>, <<>>),                    \* 10
     RefNode(nNode),                                                   \* 11
     RefNode(nMissing),                                                \* 12
     ObjectNode(<<P(pb, 14)>>, <<>>),                                  \* 13
     [ObjectNode(<<P(pc, 1)>>, <<pc>>) EXCEPT !.deprecated = TRUE],    \* 14
     [S0 EXCEPT !.type = "object",
                !.additionalProperties = "schema", !.apNode = 1],      \* 15
     [S0 EXCEPT !.type = "object", !.additionalProperties = "true"],   \* 16
     [S0 EXCEPT !.has = {"oneOf"}, !.oneOf = <<1, 6>>,
                !.discriminator = ptype],                              \* 17
     ObjectNode(<<P(pid, 1), P(pb, 5)>>, <<>>),                        \* 18
     ObjectNode(<<P(pnext, 20)>>, <<>>),                               \* 19
     ArrayNode(19),                                                    \* 20
     EnumNode("integer", <<NumValue(1), NumValue(2), NumValue(5)>>),   \* 21
     EnumNode("undefined", <<StrValue(<<"o","n">>), NumValue(7),
                             StrValue(<<>>)>>),                        \* 22
     [ObjectNode(<<P(pid, 2), P(ptype, 3)>>, <<pid, pb>>) EXCEPT
        !.additionalProperties = "schema", !.apNode = 14,
        !.description = "doc"],                                        \* 23
     [S0 EXCEPT !.has = {"allOf", "anyOf"}, !.allOf = <<14, 1>>,
                !.anyOf = <<3>>, !.nullable = TRUE],                   \* 24
     EnumNode("number", <<NumValue(0), NumValue(12)>>),                \* 25
     ObjectNode(<<P(pb_c, 1), P(pb, 14)>>, <<>>),                      \* 26
     [S0 EXCEPT !.type = "object", !.additionalProperties = "false"],  \* 27
     [ObjectNode(<<>>, <<>>) EXCEPT
        !.additionalProperties = "schema", !.apNode = 4],              \* 28
     EnumNode("boolean", <<StrValue(<<"o","n">>), StrValue(<<"O","n">>)>>), \* 29
     ArrayNode(12),                                                    \* 30
     [S0 EXCEPT !.has = {"$ref"},
                !.ref = << <<"#">>, <<"d","e","f","s">>, nNode, pid >>],  \* 31
     ObjectNode(<<P(pid, 1), P(pnext, 31)>>, <<pid>>),                 \* 32
     [S0 EXCEPT !.description = "Unknown type schema", !.nullable = TRUE,
                !.deprecated = TRUE, !.format = "uuid", !.example = "x",
                !.constraints = [NoConstraints EXCEPT !.minLength = 1]], \* 33
     [S0 EXCEPT !.type = "file", !.description = "upload",
                !.additionalProperties = "false"],                     \* 34
     ArrayNode(5),                                                     \* 35
     ObjectNode(<<P(pid, 33), P(pb, 34)>>, <<pid>>),                   \* 36
     [S0 EXCEPT !.has = {"allOf", "oneOf", "anyOf"}, !.allOf = <<1>>,
                !.oneOf = <<3, 14>>, !.anyOf = <<4>>]                  \* 37
  >>

\* Nodes for the dispatch order: every combination of the fields the
\* dispatcher looks at.
DispatchTypes ==
  {"undefined", "file", "string", "number", "integer", "boolean", "null",
   "array", "object"}

DispatchNodes ==
  { [S0 EXCEPT
       !.type = t,
       !.has = h \cup c \cup (IF t = "array" THEN {"items"} ELSE {}),
       !.ref = IF "$ref" \in h THEN RefTo(nNode) ELSE <<>>,
       !.enum = IF "enum" \in h THEN <<StrValue(<<"o","n">>)>> ELSE <<>>,
       !.properties = IF "properties" \in h THEN <<P(pid, 1)>> ELSE <<>>,
       !.allOf = IF "allOf" \in c THEN <<1>> ELSE <<>>,
       !.oneOf = IF "oneOf" \in c THEN <<1>> ELSE <<>>,
       !.anyOf = IF "anyOf" \in c THEN <<1>> ELSE <<>>,
       !.items = IF t = "array" THEN 1 ELSE 0,
       !.additionalProperties = ap,
       !.apNode = IF ap = "schema" THEN 1 ELSE 0]
    : h \in SUBSET {"$ref", "enum", "properties"},
      c \in {{}, {"allOf"}, {"oneOf"}, {"anyOf"}},
      t \in DispatchTypes,
      ap \in {"absent", "false", "true", "schema"} }

\* Object.entries(schemas): the input of mapSchemaCollection
E(name, schema) == [name |-> name, schema |-> schema]

CoreDocs ==
  { <<E(nNode, Heap[i])>> : i \in 1..Len(Heap) }
  \cup
  { <<>>,
    <<E(nA, Heap[13]), E(nA_b, Heap[1])>>,
    <<E(na_b, Heap[1]), E(naB, Heap[4])>>,
    <<E(nUser, Heap[6]), E(nB, Heap[3])>>,
    <<E(nA, Heap[10])>>,
    <<E(nA, Heap[10]), E(nNode, Heap[6])>>,
    <<E(nA, Heap[6]), E(nB, Heap[18])>>,
    <<E(nA, Heap[26])>>,
    <<E(nA, Heap[15]), E(nB, Heap[27])>>,
    <<E(nA, Heap[13]), E(nA_b, Heap[6])>>,
    <<E(nA, Heap[13]), E(nA_b, Heap[14])>> }

DispatchDocs == { <<E(nA, n)>> : n \in DispatchNodes }

DefaultOptions ==
  [namingStrategy |-> "", preserveOriginalNames |-> FALSE,
   typePrefix |-> <<>>, typeSuffix |-> <<>>]

AllOptions ==
  { [DefaultOptions EXCEPT !.namingStrategy = s]
    : s \in {"", "camelCase", "PascalCase", "snake_case", "kebab-case"} }
  \cup
  { [DefaultOptions EXCEPT !.namingStrategy = "snake_case",
                           !.preserveOriginalNames = TRUE],
    [DefaultOptions EXCEPT !.typePrefix = <<"T">>, !.typeSuffix = <<"X">>] }

\* GoGeneratorConfig and TypeScriptGeneratorConfig, after the constructors
\* have filled in the defaults.
GoDefaultConfig ==
  [packageName |-> <<"T","y","p","e","s">>, includeJsonTags |-> TRUE,
   includeValidationTags |-> FALSE, exportTypes |-> TRUE,
   usePointersForOptional |-> TRUE, omitEmptyTags |-> TRUE,
   fileHeader |-> "", additionalImports |-> <<>>]

TsDefaultConfig ==
  [useConstEnums |-> FALSE, exportTypes |-> TRUE, includeJsDoc |-> TRUE,
   useOptionalProperties |-> TRUE, fileHeader |-> "",
   additionalImports |-> <<>>]

Configs ==
  { [go |-> [GoDefaultConfig EXCEPT !.fileHeader = "// Auto-generated Go types"],
     ts |-> [TsDefaultConfig EXCEPT !.fileHeader = "// Auto-generated TypeScript types"]],
    [go |-> [GoDefaultConfig EXCEPT !.includeValidationTags = TRUE,
                                    !.exportTypes = FALSE,
                                    !.usePointersForOptional = FALSE,
                                    !.omitEmptyTags = FALSE],
     ts |-> [TsDefaultConfig EXCEPT !.useConstEnums = TRUE,
                                    !.exportTypes = FALSE,
                                    !.includeJsDoc = FALSE,
                                    !.useOptionalProperties = FALSE]] }

Inputs ==
  (CoreDocs \X AllOptions \X Configs)
  \cup (DispatchDocs \X {DefaultOptions} \X {CHOOSE c \in Configs : c.go.exportTypes})

(***************************************************************************)
(* The mapper's leaf functions                                             *)
(***************************************************************************)
extractValidationConstraints(schema) ==
  [minimum |-> schema.constraints.minimum,
   maximum |-> schema.constraints.maximum,
   minLength |-> schema.constraints.minLength,
   maxLength |-> schema.constraints.maxLength,
   pattern |-> schema.constraints.pattern,
   minItems |-> schema.constraints.minItems,
   maxItems |-> schema.constraints.maxItems,
   uniqueItems |-> schema.constraints.uniqueItems]

mapPrimitiveType(schema, name, options) ==
  [kind |-> "primitive",
   name |-> formatTypeName(name, options),
   description |-> schema.description,
   primitiveType |-> mapOpenAPITypeToPrimitive(schema.type),
   nullable |-> schema.nullable,
   default |-> schema.default,
   example |-> schema.example,
   format |-> schema.format,
   constraints |-> extractValidationConstraints(schema),
   deprecated |-> schema.deprecated]

\* a labelling that numbers non-string values from zero
EnumLabelZeroBased(value, index) ==
  IF value.str THEN capitalizeFirst(value.s)
  ELSE <<"V","a","l","u","e">> \o NumberToString(index)

\* label of the enum value at 0-based position index
EnumLabel(value, index) ==
  IF value.str THEN capitalizeFirst(value.s)
  ELSE <<"V","a","l","u","e">> \o NumberToString(index + 1)

EnumBaseType(baseType) ==
  IF baseType = "integer" THEN "integer"
  ELSE IF baseType = "number" THEN "number" ELSE "string"

mapEnumType(schema, name, options) ==
  [kind |-> "enum",
   name |-> formatTypeName(name, options),
   description |-> schema.description,
   values |-> [i \in 1..Len(schema.enum) |->
                 [value |-> schema.enum[i],
                  label |-> EnumLabel(schema.enum[i], i - 1)]],
   baseType |-> EnumBaseType(mapOpenAPITypeToPrimitive(schema.type)),
   nullable |-> schema.nullable,
   default |-> schema.default,
   example |-> schema.example,
   deprecated |-> schema.deprecated]

mapReference(ref, name, options) ==
  [kind |-> "reference",
   name |-> formatTypeName(name, options),
   reference |-> extractReferenceTypeName(ref.ref),
   originalRef |-> ref.ref]

\* a back-reference that names its target by the formatted type name
CircularReferenceFormatted(name, options) ==
  [kind |-> "reference",
   name |-> formatTypeName(name, options),
   reference |-> formatTypeName(name, options)]

\* the definition mapObjectType returns when its name is on the stack
CircularReference(name, options) ==
  [kind |-> "reference",
   name |-> formatTypeName(name, options),
   reference |-> name]

ArrayDefinition(schema, name, options, itemsType) ==
  [kind |-> "array",
   name |-> formatTypeName(name, options),
   description |-> schema.description,
   items |-> itemsType,
   nullable |-> schema.nullable,
   default |-> schema.default,
   example |-> schema.example,
   constraints |-> extractValidationConstraints(schema),
   deprecated |-> schema.deprecated]

\* schema.required || []
RequiredProperties(schema) ==
  IF "required" \in schema.has THEN schema.required ELSE <<>>

Includes(seq, x) == \E i \in 1..Len(seq) : seq[i] = x

\* a property definition that ignores the required list
PropertyDefinitionOptional(propName, propSchema, propType, requiredProperties) ==
  [name |-> propName,
   type |-> propType,
   required |-> FALSE,
   description |-> propSchema.description,
   deprecated |-> propSchema.deprecated,
   example |-> propSchema.example,
   readOnly |-> propSchema.readOnly,
   writeOnly |-> propSchema.writeOnly]

PropertyDefinition(propName, propSchema, propType, requiredProperties) ==
  [name |-> propName,
   type |-> propType,
   required |-> Includes(requiredProperties, propName),
   description |-> propSchema.description,
   deprecated |-> propSchema.deprecated,
   example |-> propSchema.example,
   readOnly |-> propSchema.readOnly,
   writeOnly |-> propSchema.writeOnly]

ObjectDefinition(schema, name, options, properties, additionalProperties) ==
  [kind |-> "object",
   name |-> formatTypeName(name, options),
   description |-> schema.description,
   properties |-> properties,
   requiredProperties |-> RequiredProperties(schema),
   additionalProperties |-> additionalProperties,
   nullable |-> schema.nullable,
   default |-> schema.default,
   example |-> schema.example,
   deprecated |-> schema.deprecated]

UnionDefinition(schema, name, options, types) ==
  [kind |-> "union",
   name |-> formatTypeName(name, options),
   description |-> schema.description,
   types |-> types,
   discriminated |-> "oneOf" \in schema.has,
   discriminator |-> schema.discriminator,
   nullable |-> schema.nullable,
   default |-> schema.default,
   example |-> schema.example,
   deprecated |-> schema.deprecated]

\* a dispatcher that tests the enum list before composition
DispatchRuleEnumFirst(schema) ==
  IF "$ref" \in schema.has THEN "reference"
  ELSE IF "enum" \in schema.has THEN "enum"
  ELSE IF schema.has \cap {"allOf", "oneOf", "anyOf"} # {} THEN "union"
  ELSE IF schema.type = "array" THEN "array"
  ELSE IF \/ schema.type = "object"
          \/ "properties" \in schema.has
          \/ schema.additionalProperties \in {"true", "schema"} THEN "object"
  ELSE IF isPrimitiveType(schema.type) THEN "primitive"
  ELSE "fallback"

\* The rule mapOpenAPISchemaToType applies to a node: the first that matches.
DispatchRule(schema) ==
  IF "$ref" \in schema.has THEN "reference"
  ELSE IF schema.has \cap {"allOf", "oneOf", "anyOf"} # {} THEN "union"
  ELSE IF "enum" \in schema.has THEN "enum"
  ELSE IF schema.type = "array" THEN "array"
  ELSE IF \/ schema.type = "object"
          \/ "properties" \in schema.has
          \/ schema.additionalProperties \in {"true", "schema"} THEN "object"
  ELSE IF isPrimitiveType(schema.type) THEN "primitive"
  ELSE "fallback"

Call(schema, name) == [schema |-> schema, name |-> name]

\* a mapObjectType that maps its nested schemas under its own name
ObjectCallsSameName(schema, name) ==
  [i \in 1..(IF "properties" \in schema.has THEN Len(schema.properties) ELSE 0) |->
     Call(Heap[schema.properties[i].node], name)]
  \o (IF schema.additionalProperties = "schema"
      THEN <<Call(Heap[schema.apNode], name)>>
      ELSE <<>>)

\* the nested mapping calls of mapObjectType, in the order it makes them
ObjectCalls(schema, name) ==
  [i \in 1..(IF "properties" \in schema.has THEN Len(schema.properties) ELSE 0) |->
     Call(Heap[schema.properties[i].node],
          name \o <<"_">> \o schema.properties[i].name)]
  \o (IF schema.additionalProperties = "schema"
      THEN <<Call(Heap[schema.apNode],
                  name \o <<"_","A","d","d","i","t","i","o","n","a","l",
                            "P","r","o","p","e","r","t","y">>)>>
      ELSE <<>>)

BranchCalls(branches, name, tag) ==
  [i \in 1..Len(branches) |->
     Call(Heap[branches[i]], name \o tag \o NumberToString(i - 1))]

\* a mapUnionType that takes the oneOf branches first
UnionCallsOneOfFirst(schema, name) ==
  (IF "oneOf" \in schema.has
   THEN BranchCalls(schema.oneOf, name, <<"_","O","n","e","O","f","_">>) ELSE <<>>)
  \o (IF "allOf" \in schema.has
      THEN BranchCalls(schema.allOf, name, <<"_","A","l","l","O","f","_">>) ELSE <<>>)
  \o (IF "anyOf" \in schema.has
      THEN BranchCalls(schema.anyOf, name, <<"_","A","n","y","O","f","_">>) ELSE <<>>)

\* the nested mapping calls of mapUnionType, in the order it makes them
UnionCalls(schema, name) ==
  (IF "allOf" \in schema.has
   THEN BranchCalls(schema.allOf, name, <<"_","A","l","l","O","f","_">>) ELSE <<>>)
  \o (IF "oneOf" \in schema.has
      THEN BranchCalls(schema.oneOf, name, <<"_","O","n","e","O","f","_">>) ELSE <<>>)
  \o (IF "anyOf" \in schema.has
      THEN BranchCalls(schema.anyOf, name, <<"_","A","n","y","O","f","_">>) ELSE <<>>)

ItemsCall(schema, name) ==
  Call(Heap[schema.items], name \o <<"I","t","e","m">>)

(***************************************************************************)
(* State                                                                   *)
(***************************************************************************)
VARIABLES
  schemas,    \* Object.entries of the schema collection handed to the mapper
  options,    \* TypeMapperOptions
  config,     \* the emitters' configurations
  contexts,   \* MappingContext objects: processingStack, processedTypes
  frames,     \* per run: the active mapObjectType/mapArrayType/mapUnionType calls
  call,       \* per run: the mapOpenAPISchemaToType call being entered
  ret,        \* per run: the value the last finished call returned
  idx,        \* per run: position of mapSchemaCollection's loop
  result,     \* per run: mapSchemaCollection's local result
  registry,   \* per run: the value mapSchemaCollection returned
  status,     \* per run: mapping, mapped, rendered, done, error, overflow
  error,      \* per run: the thrown error
  tsText,     \* per run: output of TypeScriptGenerator.generateTypes
  goText,     \* per run: output of GoGenerator.generateTypes
  supplied,   \* per run: the MappingContext as it was when the run began
  cli         \* the generate command: argv, file system, position, outcome

vars == <<schemas, options, config, contexts, frames, call, ret, idx, result,
          registry, status, error, tsText, goText, supplied, cli>>

inputVars == <<schemas, options, config, supplied>>

NoError == [thrown |-> FALSE, name |-> <<>>]

\* createMappingContext()
createMappingContext == [processingStack |-> <<>>, processedTypes |-> <<>>]

\* the generate command has not been invoked
NoCli == [pc |-> "none"]

\* a context kept in one place and handed to every run
ContextOfShared(r) == 1

\* mapSchemaCollection creates its context itself: run r maps with context r
ContextOf(r) == r

Init ==
  /\ \E in \in Inputs :
       /\ schemas = in[1]
       /\ options = in[2]
       /\ config = in[3]
  /\ contexts = [c \in Runs |-> createMappingContext]
  /\ frames = [r \in Runs |-> <<>>]
  /\ call = [r \in Runs |-> <<>>]
  /\ ret = [r \in Runs |-> <<>>]
  /\ idx = [r \in Runs |-> 1]
  /\ result = [r \in Runs |-> <<>>]
  /\ registry = [r \in Runs |-> <<>>]
  /\ status = [r \in Runs |-> "mapping"]
  /\ error = [r \in Runs |-> NoError]
  /\ tsText = [r \in Runs |-> <<>>]
  /\ goText = [r \in Runs |-> <<>>]
  /\ supplied = [r \in Runs |-> createMappingContext]
  /\ cli = NoCli

Finished(r) == status[r] \in {"done", "error", "overflow"}

Top(r) == frames[r][Len(frames[r])]
Pop(seq) == SubSeq(seq, 1, Len(seq) - 1)
Context(r) == contexts[ContextOf(r)]

\* Map.set(key, value)
MapSet(m, key, value) ==
  [k \in DOMAIN m \cup {key} |-> IF k = key THEN value ELSE m[k]]

\* result[name] = def on an object whose keys keep insertion order
SetEntry(entries, name, def) ==
  IF \E i \in 1..Len(entries) : entries[i].name = name
  THEN [i \in 1..Len(entries) |->
          IF entries[i].name = name THEN [name |-> name, def |-> def]
          ELSE entries[i]]
  ELSE Append(entries, [name |-> name, def |-> def])

Frame(fn, c) ==
  [fn |-> fn, schema |-> c.schema, name |-> c.name, i |-> 1, acc |-> <<>>,
   additionalProperties |->
     [tag |-> IF c.schema.additionalProperties = "true" THEN "true" ELSE "false"]]

\* a synchronous throw: every active call is abandoned, nothing is returned
Throw(r, kind, name) ==
  /\ status' = [status EXCEPT ![r] = kind]
  /\ error' = [error EXCEPT ![r] = [thrown |-> TRUE, name |-> name]]
  /\ frames' = [frames EXCEPT ![r] = <<>>]
  /\ call' = [call EXCEPT ![r] = <<>>]
  /\ ret' = [ret EXCEPT ![r] = <<>>]

\* enter a mapping function that makes nested calls
Enter(r, fn, nextCall) ==
  IF Len(frames[r]) >= MaxDepth
  THEN Throw(r, "overflow", call[r][1].name)
  ELSE /\ frames' = [frames EXCEPT ![r] = Append(@, Frame(fn, call[r][1]))]
       /\ call' = [call EXCEPT ![r] = nextCall]
       /\ UNCHANGED <<status, error, ret>>

Return(r, def) ==
  /\ ret' = [ret EXCEPT ![r] = <<def>>]
  /\ call' = [call EXCEPT ![r] = <<>>]

Entering(r, rule) ==
  /\ status[r] = "mapping"
  /\ call[r] # <<>>
  /\ DispatchRule(call[r][1].schema) = rule

Resuming(r, fn) ==
  /\ status[r] = "mapping"
  /\ call[r] = <<>>
  /\ frames[r] # <<>>
  /\ Top(r).fn = fn

(***************************************************************************)
(* mapSchemaCollection                                                     *)
(***************************************************************************)
CollectionCall(r) ==
  /\ status[r] = "mapping"
  /\ frames[r] = <<>> /\ call[r] = <<>> /\ ret[r] = <<>>
  /\ idx[r] <= Len(schemas)
  /\ call' = [call EXCEPT ![r] = <<Call(schemas[idx[r]].schema, schemas[idx[r]].name)>>]
  /\ UNCHANGED <<inputVars, cli, contexts, frames, ret, idx, result, registry,
                 status, error, tsText, goText>>

CollectionStore(r) ==
  /\ status[r] = "mapping"
  /\ frames[r] = <<>> /\ call[r] = <<>> /\ ret[r] # <<>>
  /\ result' = [result EXCEPT ![r] = SetEntry(@, schemas[idx[r]].name, ret[r][1])]
  /\ idx' = [idx EXCEPT ![r] = @ + 1]
  /\ ret' = [ret EXCEPT ![r] = <<>>]
  /\ UNCHANGED <<inputVars, cli, contexts, frames, call, registry, status, error,
                 tsText, goText>>

CollectionReturn(r) ==
  /\ status[r] = "mapping"
  /\ frames[r] = <<>> /\ call[r] = <<>> /\ ret[r] = <<>>
  /\ idx[r] > Len(schemas)
  /\ registry' = [registry EXCEPT ![r] = result[r]]
  /\ status' = [status EXCEPT ![r] = "mapped"]
  /\ UNCHANGED <<inputVars, cli, contexts, frames, call, ret, idx, result, error,
                 tsText, goText>>

(***************************************************************************)
(* mapOpenAPISchemaToType and the functions it dispatches to               *)
(***************************************************************************)
MapReference(r) ==
  /\ Entering(r, "reference")
  /\ Return(r, mapReference(call[r][1].schema, call[r][1].name, options))
  /\ UNCHANGED <<inputVars, cli, contexts, frames, idx, result, registry, status,
                 error, tsText, goText>>

MapEnum(r) ==
  /\ Entering(r, "enum")
  /\ Return(r, mapEnumType(call[r][1].schema, call[r][1].name, options))
  /\ UNCHANGED <<inputVars, cli, contexts, frames, idx, result, registry, status,
                 error, tsText, goText>>

MapPrimitive(r) ==
  /\ Entering(r, "primitive")
  /\ Return(r, mapPrimitiveType(call[r][1].schema, call[r][1].name, options))
  /\ UNCHANGED <<inputVars, cli, contexts, frames, idx, result, registry, status,
                 error, tsText, goText>>

\* a dispatcher that rejects a node whose type it does not know
MapFallbackThrows(r) ==
  /\ Entering(r, "fallback")
  /\ Throw(r, "error", call[r][1].name)
  /\ UNCHANGED <<inputVars, cli, contexts, idx, result, registry, tsText, goText>>

MapFallback(r) ==
  /\ Entering(r, "fallback")
  /\ Return(r, mapPrimitiveType([call[r][1].schema EXCEPT !.type = "string"],
                                call[r][1].name, options))
  /\ UNCHANGED <<inputVars, cli, contexts, frames, idx, result, registry, status,
                 error, tsText, goText>>

\* a mapArrayType that takes an array without items for an array of strings
MapArrayLenient(r) ==
  /\ Entering(r, "array")
  /\ IF "items" \notin call[r][1].schema.has
     THEN /\ Return(r, ArrayDefinition(call[r][1].schema, call[r][1].name, options,
                     mapPrimitiveType(Primitive("string"),
                                      call[r][1].name \o <<"I","t","e","m">>,
                                      options)))
          /\ UNCHANGED <<frames, status, error>>
     ELSE Enter(r, "mapArrayType",
                <<ItemsCall(call[r][1].schema, call[r][1].name)>>)
  /\ UNCHANGED <<inputVars, cli, contexts, idx, result, registry, tsText, goText>>

\* mapArrayType up to its nested call
MapArray(r) ==
  /\ Entering(r, "array")
  /\ IF "items" \notin call[r][1].schema.has
     THEN Throw(r, "error", call[r][1].name)
     ELSE Enter(r, "mapArrayType",
                <<ItemsCall(call[r][1].schema, call[r][1].name)>>)
  /\ UNCHANGED <<inputVars, cli, contexts, idx, result, registry, tsText, goText>>

\* mapArrayType after its nested call
ArrayReturn(r) ==
  /\ Resuming(r, "mapArrayType")
  /\ ret[r] # <<>>
  /\ ret' = [ret EXCEPT ![r] =
               <<ArrayDefinition(Top(r).schema, Top(r).name, options, ret[r][1])>>]
  /\ frames' = [frames EXCEPT ![r] = Pop(@)]
  /\ UNCHANGED <<inputVars, cli, contexts, call, idx, result, registry, status,
                 error, tsText, goText>>

\* mapObjectType up to its first nested call
MapObject(r) ==
  /\ Entering(r, "object")
  /\ IF Includes(Context(r).processingStack, call[r][1].name)
     THEN /\ Return(r, CircularReference(call[r][1].name, options))
          /\ UNCHANGED <<contexts, frames, status, error>>
     ELSE /\ Enter(r, "mapObjectType", <<>>)
          /\ contexts' =
               IF Len(frames[r]) >= MaxDepth THEN contexts
               ELSE [contexts EXCEPT ![ContextOf(r)].processingStack =
                       Append(@, call[r][1].name)]
  /\ UNCHANGED <<inputVars, cli, idx, result, registry, tsText, goText>>

\* the next nested call of mapObjectType: a property or additionalProperties
ObjectCall(r) ==
  /\ Resuming(r, "mapObjectType")
  /\ ret[r] = <<>>
  /\ Top(r).i <= Len(ObjectCalls(Top(r).schema, Top(r).name))
  /\ call' = [call EXCEPT ![r] = <<ObjectCalls(Top(r).schema, Top(r).name)[Top(r).i]>>]
  /\ UNCHANGED <<inputVars, cli, contexts, frames, ret, idx, result, registry,
                 status, error, tsText, goText>>

\* mapObjectType takes the value of a nested call
ObjectResume(r) ==
  /\ Resuming(r, "mapObjectType")
  /\ ret[r] # <<>>
  /\ LET f == Top(r)
         nprops == IF "properties" \in f.schema.has
                   THEN Len(f.schema.properties) ELSE 0
     IN frames' = [frames EXCEPT ![r][Len(frames[r])] =
          IF f.i <= nprops
          THEN [f EXCEPT !.i = @ + 1,
                  !.acc = Append(@, PropertyDefinition(
                             f.schema.properties[f.i].name,
                             Heap[f.schema.properties[f.i].node],
                             ret[r][1],
                             RequiredProperties(f.schema)))]
          ELSE [f EXCEPT !.i = @ + 1,
                  !.additionalProperties = [tag |-> "type", type |-> ret[r][1]]]]
  /\ ret' = [ret EXCEPT ![r] = <<>>]
  /\ UNCHANGED <<inputVars, cli, contexts, call, idx, result, registry, status,
                 error, tsText, goText>>

\* a mapObjectType that returns without popping its name
ObjectReturnKeepsStack(r) ==
  /\ Resuming(r, "mapObjectType")
  /\ ret[r] = <<>>
  /\ Top(r).i > Len(ObjectCalls(Top(r).schema, Top(r).name))
  /\ LET f == Top(r)
         objectDef == ObjectDefinition(f.schema, f.name, options, f.acc,
                                       f.additionalProperties)
     IN /\ contexts' = [contexts EXCEPT ![ContextOf(r)].processedTypes =
               MapSet(@, f.name, objectDef)]
        /\ ret' = [ret EXCEPT ![r] = <<objectDef>>]
  /\ frames' = [frames EXCEPT ![r] = Pop(@)]
  /\ UNCHANGED <<inputVars, cli, call, idx, result, registry, status, error,
                 tsText, goText>>

\* mapObjectType after its nested calls: pop, build, cache, return
ObjectReturn(r) ==
  /\ Resuming(r, "mapObjectType")
  /\ ret[r] = <<>>
  /\ Top(r).i > Len(ObjectCalls(Top(r).schema, Top(r).name))
  /\ LET f == Top(r)
         objectDef == ObjectDefinition(f.schema, f.name, options, f.acc,
                                       f.additionalProperties)
     IN /\ contexts' = [contexts EXCEPT ![ContextOf(r)] =
               [processingStack |-> Pop(@.processingStack),
                processedTypes |-> MapSet(@.processedTypes, f.name, objectDef)]]
        /\ ret' = [ret EXCEPT ![r] = <<objectDef>>]
  /\ frames' = [frames EXCEPT ![r] = Pop(@)]
  /\ UNCHANGED <<inputVars, cli, call, idx, result, registry, status, error,
                 tsText, goText>>

\* mapUnionType up to its first nested call
MapUnion(r) ==
  /\ Entering(r, "union")
  /\ Enter(r, "mapUnionType", <<>>)
  /\ UNCHANGED <<inputVars, cli, contexts, idx, result, registry, tsText, goText>>

UnionCall(r) ==
  /\ Resuming(r, "mapUnionType")
  /\ ret[r] = <<>>
  /\ Top(r).i <= Len(UnionCalls(Top(r).schema, Top(r).name))
  /\ call' = [call EXCEPT ![r] = <<UnionCalls(Top(r).schema, Top(r).name)[Top(r).i]>>]
  /\ UNCHANGED <<inputVars, cli, contexts, frames, ret, idx, result, registry,
                 status, error, tsText, goText>>

UnionResume(r) ==
  /\ Resuming(r, "mapUnionType")
  /\ ret[r] # <<>>
  /\ frames' = [frames EXCEPT ![r][Len(frames[r])] =
                  [@ EXCEPT !.i = @ + 1, !.acc = Append(@, ret[r][1])]]
  /\ ret' = [ret EXCEPT ![r] = <<>>]
  /\ UNCHANGED <<inputVars, cli, contexts, call, idx, result, registry, status,
                 error, tsText, goText>>

UnionReturn(r) ==
  /\ Resuming(r, "mapUnionType")
  /\ ret[r] = <<>>
  /\ Top(r).i > Len(UnionCalls(Top(r).schema, Top(r).name))
  /\ ret' = [ret EXCEPT ![r] =
               <<UnionDefinition(Top(r).schema, Top(r).name, options, Top(r).acc)>>]
  /\ frames' = [frames EXCEPT ![r] = Pop(@)]
  /\ UNCHANGED <<inputVars, cli, contexts, call, idx, result, registry, status,
                 error, tsText, goText>>

(***************************************************************************)
(* Emitters: helpers shared by the two templates                           *)
(***************************************************************************)
\* lines.join('\n'): joining no line still leaves one empty line in the text
JoinedLines(lines) == IF lines = <<>> THEN << <<>> >> ELSE lines

\* text + firstLine: a text that ends with a newline, followed by more text
PrefixLines(prefix, lines) == [i \in 1..Len(lines) |-> prefix \o lines[i]]

\* constraints is undefined on every kind the mapper builds without it
Constraints(type) ==
  IF "constraints" \in DOMAIN type THEN <<type.constraints>> ELSE <<>>

IsDeprecatedValue(value) ==
  "deprecated" \in DOMAIN value /\ value.deprecated

Description(x) == IF "description" \in DOMAIN x THEN x.description ELSE ""
Deprecated(x) == "deprecated" \in DOMAIN x /\ x.deprecated
Nullable(x) == "nullable" \in DOMAIN x /\ x.nullable

\* the validations both emitters list for a constraint set, with their keys
Validations(c, kMin, kMax, kMinLength, kMaxLength, kPattern) ==
  (IF c.minimum # -1 THEN << <<kMin>> \o NumberToString(c.minimum) >> ELSE <<>>)
  \o (IF c.maximum # -1 THEN << <<kMax>> \o NumberToString(c.maximum) >> ELSE <<>>)
  \o (IF c.minLength # -1 THEN << <<kMinLength>> \o NumberToString(c.minLength) >> ELSE <<>>)
  \o (IF c.maxLength # -1 THEN << <<kMaxLength>> \o NumberToString(c.maxLength) >> ELSE <<>>)
  \o (IF c.pattern # "" THEN << <<kPattern, c.pattern>> >> ELSE <<>>)

\* parts.join(sep)
RECURSIVE Join(_, _)
Join(parts, sep) ==
  IF parts = <<>> THEN <<>>
  ELSE IF Len(parts) = 1 THEN parts[1]
  ELSE parts[1] \o <<sep>> \o Join(Tail(parts), sep)

(***************************************************************************)
(* Emitter A: GoGenerator                                                  *)
(***************************************************************************)
GoFormatTypeName(cfg, name) ==
  IF cfg.exportTypes THEN capitalizeFirst(name) ELSE uncapitalizeFirst(name)

GoFormatFieldName(name) == capitalizeFirst(name)

\* a json tag that marks every field omitempty when the option is on
generateJsonTagOmitAll(cfg, name, required) ==
  IF ~cfg.includeJsonTags THEN <<>>
  ELSE <<"json:\"">> \o name
       \o (IF cfg.omitEmptyTags THEN <<",omitempty">> ELSE <<>>)
       \o <<"\"">>

generateJsonTag(cfg, name, required) ==
  IF ~cfg.includeJsonTags THEN <<>>
  ELSE <<"json:\"">> \o name
       \o (IF cfg.omitEmptyTags /\ ~required THEN <<",omitempty">> ELSE <<>>)
       \o <<"\"">>

generateValidationTag(cfg, constraints) ==
  IF ~cfg.includeValidationTags \/ constraints = <<>> THEN <<>>
  ELSE LET validations ==
             Validations(constraints[1], "min=", "max=", "min=", "max=", "regexp=")
       IN IF validations # <<>>
          THEN <<"validate:\"">> \o Join(validations, ",") \o <<"\"">>
          ELSE <<>>

\* the lines of the comment; the comment text ends with a newline
GoGenerateComment(description, deprecated) ==
  (IF description # "" THEN << <<"// ", description>> >> ELSE <<>>)
  \o (IF deprecated THEN << <<"// Deprecated: This field is deprecated">> >> ELSE <<>>)

GoEscapeChar(c) ==
  IF c = "\\" THEN <<"\\", "\\">>
  ELSE IF c = "\"" THEN <<"\\", "\"">>
  ELSE IF c = "\n" THEN <<"\\", "n">>
  ELSE <<c>>

GoEscapeString(str) == Flatten([i \in 1..Len(str) |-> GoEscapeChar(str[i])])

GoMapPrimitiveType(primitiveType) ==
  CASE primitiveType = "string"  -> "string"
    [] primitiveType = "number"  -> "float64"
    [] primitiveType = "integer" -> "int64"
    [] primitiveType = "boolean" -> "bool"
    [] primitiveType = "null"    -> "interface{}"
    [] OTHER -> "interface{}"

RECURSIVE GoRenderTypeReference(_, _)
GoRenderTypeReference(type, cfg) ==
  IF type.kind = "primitive"
  THEN (IF Nullable(type) THEN <<"*">> ELSE <<>>)
       \o <<GoMapPrimitiveType(type.primitiveType)>>
  ELSE IF type.kind = "reference"
  THEN GoFormatTypeName(cfg, type.reference)
  ELSE IF type.kind = "array"
  THEN (IF Nullable(type) THEN <<"*">> ELSE <<>>)
       \o <<"[]">> \o GoRenderTypeReference(type.items, cfg)
  ELSE IF type.kind = "union"
  THEN IF Nullable(type) THEN <<"*interface{}">> ELSE <<"interface{}">>
  ELSE IF type.kind = "map"
  THEN (IF Nullable(type) THEN <<"*">> ELSE <<>>)
       \o <<"map[">>
       \o (IF type.keyType # <<>> THEN GoRenderTypeReference(type.keyType[1], cfg)
           ELSE <<"string">>)
       \o <<"]">> \o GoRenderTypeReference(type.valueType, cfg)
  ELSE GoFormatTypeName(cfg, type.name)

GoRenderPrimitive(type, cfg) ==
  GoGenerateComment(Description(type), Deprecated(type))
  \o << <<"type ">> \o GoFormatTypeName(cfg, type.name) \o <<" ">>
        \o (IF Nullable(type) THEN <<"*">> ELSE <<>>)
        \o <<GoMapPrimitiveType(type.primitiveType)>> >>

\* the line of the constant block for the value at 0-based position index
GoEnumMember(value, index, typeName) ==
  LET enumName == typeName \o value.label
      deprecatedComment == IF IsDeprecatedValue(value) THEN <<" // Deprecated">> ELSE <<>>
  IN IF value.value.str
     THEN <<"\t">> \o enumName \o <<" ">> \o typeName \o <<" = ", "\"">>
          \o GoEscapeString(value.value.s) \o <<"\"">> \o deprecatedComment
     ELSE <<"\t">> \o enumName
          \o (IF index = 0 THEN <<" ">> \o typeName \o <<" = iota">> ELSE <<>>)
          \o deprecatedComment

\* a constant block that starts at the second value
GoRenderEnumSkipsFirst(type, cfg) ==
  LET typeName == GoFormatTypeName(cfg, type.name)
  IN GoGenerateComment(Description(type), Deprecated(type))
     \o << <<"type ">> \o typeName \o <<" ", GoMapPrimitiveType(type.baseType)>>,
           <<>>,
           <<"const (">> >>
     \o [i \in 1..(Len(type.values) - 1) |->
           GoEnumMember(type.values[i + 1], i, typeName)]
     \o << <<")">> >>

GoRenderEnum(type, cfg) ==
  LET typeName == GoFormatTypeName(cfg, type.name)
  IN GoGenerateComment(Description(type), Deprecated(type))
     \o << <<"type ">> \o typeName \o <<" ", GoMapPrimitiveType(type.baseType)>>,
           <<>>,
           <<"const (">> >>
     \o [i \in 1..Len(type.values) |-> GoEnumMember(type.values[i], i - 1, typeName)]
     \o << <<")">> >>

GoRenderArray(type, cfg) ==
  GoGenerateComment(Description(type), Deprecated(type))
  \o << <<"type ">> \o GoFormatTypeName(cfg, type.name) \o <<" ">>
        \o (IF Nullable(type) THEN <<"*">> ELSE <<>>)
        \o <<"[]">> \o GoRenderTypeReference(type.items, cfg) >>

\* the lines one property contributes to the struct
GoField(prop, cfg) ==
  LET propComment == GoGenerateComment(prop.description, prop.deprecated)
      optional == IF cfg.usePointersForOptional /\ ~prop.required THEN <<"*">> ELSE <<>>
      jsonTag == generateJsonTag(cfg, prop.name, prop.required)
      validationTag == generateValidationTag(cfg, Constraints(prop.type))
      tags == Join(SelectSeq(<<jsonTag, validationTag>>, LAMBDA t : t # <<>>), " ")
      \* renderTemplate turns every BACKTICK into a backquote afterwards
      tagString == IF tags # <<>> THEN <<" BACKTICK">> \o tags \o <<"BACKTICK">> ELSE <<>>
  IN PrefixLines(<<"\t">>, propComment)
     \o << (IF propComment # <<>> THEN <<"\t", "\t">> ELSE <<"\t">>)
           \o GoFormatFieldName(prop.name) \o <<" ">> \o optional
           \o GoRenderTypeReference(prop.type, cfg) \o tagString >>

GoRenderObject(type, cfg) ==
  GoGenerateComment(Description(type), Deprecated(type))
  \o << <<"type ">> \o GoFormatTypeName(cfg, type.name) \o <<" struct {">> >>
  \o Flatten([i \in 1..Len(type.properties) |-> GoField(type.properties[i], cfg)])
  \o << <<"}">> >>

GoRenderUnion(type, cfg) ==
  GoGenerateComment(Description(type), Deprecated(type))
  \o << <<"type ">> \o GoFormatTypeName(cfg, type.name) \o <<" ">>
        \o (IF Nullable(type) THEN <<"*">> ELSE <<>>) \o <<"interface{}">> >>

GoRenderReference(type, cfg) ==
  GoGenerateComment(Description(type), Deprecated(type))
  \o << <<"type ">> \o GoFormatTypeName(cfg, type.name) \o <<" ">>
        \o GoFormatTypeName(cfg, type.reference) >>

GoRenderMap(type, cfg) ==
  GoGenerateComment(Description(type), Deprecated(type))
  \o << <<"type ">> \o GoFormatTypeName(cfg, type.name) \o <<" ">>
        \o (IF Nullable(type) THEN <<"*">> ELSE <<>>) \o <<"map[">>
        \o (IF type.keyType # <<>> THEN GoRenderTypeReference(type.keyType[1], cfg)
            ELSE <<"string">>)
        \o <<"]">> \o GoRenderTypeReference(type.valueType, cfg) >>

\* a renderType that declares an entry of unknown kind as an empty interface
GoRenderTypeDeclaresUnknown(type, cfg) ==
  IF type.kind = "primitive" THEN GoRenderPrimitive(type, cfg)
  ELSE IF type.kind = "enum" THEN GoRenderEnum(type, cfg)
  ELSE IF type.kind = "array" THEN GoRenderArray(type, cfg)
  ELSE IF type.kind = "object" THEN GoRenderObject(type, cfg)
  ELSE IF type.kind = "union" THEN GoRenderUnion(type, cfg)
  ELSE IF type.kind = "reference" THEN GoRenderReference(type, cfg)
  ELSE IF type.kind = "map" THEN GoRenderMap(type, cfg)
  ELSE << <<"type ">> \o GoFormatTypeName(cfg, type.name) \o <<" interface{}">> >>

GoRenderType(type, cfg) ==
  IF type.kind = "primitive" THEN GoRenderPrimitive(type, cfg)
  ELSE IF type.kind = "enum" THEN GoRenderEnum(type, cfg)
  ELSE IF type.kind = "array" THEN GoRenderArray(type, cfg)
  ELSE IF type.kind = "object" THEN GoRenderObject(type, cfg)
  ELSE IF type.kind = "union" THEN GoRenderUnion(type, cfg)
  ELSE IF type.kind = "reference" THEN GoRenderReference(type, cfg)
  ELSE IF type.kind = "map" THEN GoRenderMap(type, cfg)
  ELSE <<>>

\* GoGenerator.generateTypes: the main template
GoGenerateTypes(types, cfg) ==
  [header |-> cfg.fileHeader,
   package |-> toLowerCase(cfg.packageName),
   imports |-> cfg.additionalImports,
   decls |-> [i \in 1..Len(types) |-> GoRenderType(types[i], cfg)]]

(***************************************************************************)
(* Emitter B: TypeScriptGenerator                                          *)
(***************************************************************************)
TsFormatTypeName(name) == capitalizeFirst(name)

TsReservedWords ==
  { <<"d","e","f","a","u","l","t">>, <<"c","l","a","s","s">>,
    <<"i","n","t","e","r","f","a","c","e">>, <<"t","y","p","e">>,
    <<"e","n","u","m">> }

formatPropertyName(name) ==
  IF name \in TsReservedWords THEN <<"\"">> \o name \o <<"\"">> ELSE name

generateJsDoc(cfg, description, deprecated) ==
  IF ~cfg.includeJsDoc \/ (description = "" /\ ~deprecated) THEN <<>>
  ELSE << <<"/**">> >>
       \o (IF description # "" THEN << <<" * ", description>> >> ELSE <<>>)
       \o (IF deprecated THEN << <<" * @deprecated">> >> ELSE <<>>)
       \o << <<" */">> >>

generateValidationComment(cfg, constraints) ==
  IF constraints = <<>> \/ ~cfg.includeJsDoc THEN <<>>
  ELSE LET validations ==
             Validations(constraints[1], "min: ", "max: ", "minLength: ",
                         "maxLength: ", "pattern: ")
       IN IF validations # <<>> THEN <<" // ">> \o Join(validations, ", ") ELSE <<>>

TsEscapeChar(c) ==
  IF c = "'" THEN <<"\\", "'">>
  ELSE IF c = "\"" THEN <<"\\", "\"">>
  ELSE <<c>>

TsEscapeString(str) == Flatten([i \in 1..Len(str) |-> TsEscapeChar(str[i])])

TsMapPrimitiveType(primitiveType) ==
  CASE primitiveType = "string"  -> "string"
    [] primitiveType = "number"  -> "number"
    [] primitiveType = "integer" -> "number"
    [] primitiveType = "boolean" -> "boolean"
    [] primitiveType = "null"    -> "null"
    [] OTHER -> "any"

TsNullableWrap(type, text) ==
  IF Nullable(type) THEN <<"(">> \o text \o <<" | null)">> ELSE text

RECURSIVE TsRenderTypeReference(_)
TsRenderTypeReference(type) ==
  IF type.kind = "primitive"
  THEN TsNullableWrap(type, <<TsMapPrimitiveType(type.primitiveType)>>)
  ELSE IF type.kind = "reference"
  THEN TsFormatTypeName(type.reference)
  ELSE IF type.kind = "array"
  THEN TsNullableWrap(type, <<"Array<">> \o TsRenderTypeReference(type.items) \o <<">">>)
  ELSE IF type.kind = "union"
  THEN TsNullableWrap(type,
         Join([i \in 1..Len(type.types) |-> TsRenderTypeReference(type.types[i])], " | "))
  ELSE IF type.kind = "map"
  THEN TsNullableWrap(type,
         <<"Record<">>
         \o (IF type.keyType # <<>> THEN TsRenderTypeReference(type.keyType[1])
             ELSE <<"string">>)
         \o <<", ">> \o TsRenderTypeReference(type.valueType) \o <<">">>)
  ELSE TsFormatTypeName(type.name)

TsExport(cfg) == IF cfg.exportTypes THEN <<"export ">> ELSE <<>>
TsNullable(type) == IF Nullable(type) THEN <<" | null">> ELSE <<>>

TsRenderPrimitive(type, cfg) ==
  generateJsDoc(cfg, Description(type), Deprecated(type))
  \o << TsExport(cfg) \o <<"type ">> \o TsFormatTypeName(type.name) \o <<" = ">>
        \o <<TsMapPrimitiveType(type.primitiveType)>> \o TsNullable(type) \o <<";">>
        \o generateValidationComment(cfg, Constraints(type)) >>

\* the line of the enum body for one value
TsEnumMember(value) ==
  LET label == IF value.value.str
               THEN (IF value.label # <<>> THEN value.label ELSE value.value.s)
               ELSE (IF value.label # <<>> THEN value.label
                     ELSE <<"V","a","l","u","e">> \o NumberToString(value.value.n))
      enumValue == IF value.value.str
                   THEN <<"'">> \o TsEscapeString(value.value.s) \o <<"'">>
                   ELSE NumberToString(value.value.n)
  IN <<"  ">> \o label \o <<" = ">> \o enumValue \o <<",">>
     \o (IF IsDeprecatedValue(value) THEN <<" // @deprecated">> ELSE <<>>)

TsRenderEnum(type, cfg) ==
  generateJsDoc(cfg, Description(type), Deprecated(type))
  \o << TsExport(cfg) \o <<IF cfg.useConstEnums THEN "const enum" ELSE "enum", " ">>
        \o TsFormatTypeName(type.name) \o <<" {">> >>
  \o JoinedLines([i \in 1..Len(type.values) |-> TsEnumMember(type.values[i])])
  \o << <<"}">> >>

TsRenderArray(type, cfg) ==
  generateJsDoc(cfg, Description(type), Deprecated(type))
  \o << TsExport(cfg) \o <<"type ">> \o TsFormatTypeName(type.name) \o <<" = Array<">>
        \o TsRenderTypeReference(type.items) \o <<">">> \o TsNullable(type) \o <<";">> >>

\* the lines one property contributes to the interface
TsProperty(prop, cfg) ==
  LET propJsDoc == generateJsDoc(cfg, prop.description, prop.deprecated)
      optional == IF cfg.useOptionalProperties /\ ~prop.required THEN <<"?">> ELSE <<>>
  IN PrefixLines(<<"  ">>, propJsDoc)
     \o << (IF propJsDoc # <<>> THEN <<"  ", "  ">> ELSE <<"  ">>)
           \o (IF prop.readOnly THEN <<"readonly ">> ELSE <<>>)
           \o formatPropertyName(prop.name) \o optional \o <<": ">>
           \o TsRenderTypeReference(prop.type) \o <<";">>
           \o generateValidationComment(cfg, Constraints(prop.type)) >>

\* an index signature that is always typed any
TsIndexSignatureAny(type) ==
  IF type.additionalProperties.tag # "false"
  THEN << <<"  [key: string]: ", "any", ";">> >>
  ELSE <<>>

\* the index signature line, if any
TsIndexSignature(type) ==
  IF type.additionalProperties.tag = "true"
  THEN << <<"  [key: string]: ", "any", ";">> >>
  ELSE IF type.additionalProperties.tag = "type"
  THEN << <<"  [key: string]: ">>
          \o TsRenderTypeReference(type.additionalProperties.type) \o <<";">> >>
  ELSE <<>>

TsRenderObject(type, cfg) ==
  generateJsDoc(cfg, Description(type), Deprecated(type))
  \o << TsExport(cfg) \o <<"interface ">> \o TsFormatTypeName(type.name) \o <<" {">> >>
  \o JoinedLines(Flatten([i \in 1..Len(type.properties) |->
                            TsProperty(type.properties[i], cfg)]))
  \o TsIndexSignature(type)
  \o << <<"}">> >>

TsRenderUnion(type, cfg) ==
  generateJsDoc(cfg, Description(type), Deprecated(type))
  \o << TsExport(cfg) \o <<"type ">> \o TsFormatTypeName(type.name) \o <<" = ">>
        \o Join([i \in 1..Len(type.types) |-> TsRenderTypeReference(type.types[i])], " | ")
        \o TsNullable(type) \o <<";">> >>

TsRenderReference(type, cfg) ==
  generateJsDoc(cfg, Description(type), Deprecated(type))
  \o << TsExport(cfg) \o <<"type ">> \o TsFormatTypeName(type.name) \o <<" = ">>
        \o TsFormatTypeName(type.reference) \o <<";">> >>

TsRenderMap(type, cfg) ==
  generateJsDoc(cfg, Description(type), Deprecated(type))
  \o << TsExport(cfg) \o <<"type ">> \o TsFormatTypeName(type.name) \o <<" = Record<">>
        \o (IF type.keyType # <<>> THEN TsRenderTypeReference(type.keyType[1])
            ELSE <<"string">>)
        \o <<", ">> \o TsRenderTypeReference(type.valueType) \o <<">">>
        \o TsNullable(type) \o <<";">> >>

TsRenderType(type, cfg) ==
  IF type.kind = "primitive" THEN TsRenderPrimitive(type, cfg)
  ELSE IF type.kind = "enum" THEN TsRenderEnum(type, cfg)
  ELSE IF type.kind = "array" THEN TsRenderArray(type, cfg)
  ELSE IF type.kind = "object" THEN TsRenderObject(type, cfg)
  ELSE IF type.kind = "union" THEN TsRenderUnion(type, cfg)
  ELSE IF type.kind = "reference" THEN TsRenderReference(type, cfg)
  ELSE IF type.kind = "map" THEN TsRenderMap(type, cfg)
  ELSE <<>>

\* the list without the repeats of an earlier element
RECURSIVE WithoutRepeats(_)
WithoutRepeats(seq) ==
  IF seq = <<>> THEN <<>>
  ELSE LET rest == WithoutRepeats(SubSeq(seq, 1, Len(seq) - 1))
           last == seq[Len(seq)]
       IN IF \E i \in 1..Len(rest) : rest[i] = last THEN rest
          ELSE Append(rest, last)

\* a main template that renders every distinct definition once
TsGenerateTypesOnce(types, cfg) ==
  [header |-> cfg.fileHeader,
   imports |-> cfg.additionalImports,
   decls |-> [i \in 1..Len(WithoutRepeats(types)) |->
                TsRenderType(WithoutRepeats(types)[i], cfg)]]

\* TypeScriptGenerator.generateTypes: the main template
TsGenerateTypes(types, cfg) ==
  [header |-> cfg.fileHeader,
   imports |-> cfg.additionalImports,
   decls |-> [i \in 1..Len(types) |-> TsRenderType(types[i], cfg)]]

\* Object.values(schema.types)
Values(entries) == [i \in 1..Len(entries) |-> entries[i].def]

(***************************************************************************)
(* The two emitters, run on the registry the mapper returned               *)
(***************************************************************************)
\* a pipeline that renders whatever was mapped, failed or not
EmitTypeScriptAlways(r) ==
  /\ status[r] \in {"mapped", "error"}
  /\ tsText[r] = <<>>
  /\ tsText' = [tsText EXCEPT ![r] = TsGenerateTypes(Values(result[r]), config.ts)]
  /\ status' = [status EXCEPT ![r] = IF @ = "mapped" THEN "rendered" ELSE @]
  /\ UNCHANGED <<inputVars, cli, contexts, frames, call, ret, idx, result, registry,
                 error, goText>>

EmitTypeScript(r) ==
  /\ status[r] = "mapped"
  /\ tsText' = [tsText EXCEPT ![r] = TsGenerateTypes(Values(registry[r]), config.ts)]
  /\ status' = [status EXCEPT ![r] = "rendered"]
  /\ UNCHANGED <<inputVars, cli, contexts, frames, call, ret, idx, result, registry,
                 error, goText>>

EmitGo(r) ==
  /\ status[r] = "rendered"
  /\ goText' = [goText EXCEPT ![r] = GoGenerateTypes(Values(registry[r]), config.go)]
  /\ status' = [status EXCEPT ![r] = "done"]
  /\ UNCHANGED <<inputVars, cli, contexts, frames, call, ret, idx, result, registry,
                 error, tsText>>

(***************************************************************************)
(* Specification: the runs take place one after the other                  *)
(***************************************************************************)
Turn(r) == \A q \in Runs : q < r => Finished(q)

Next ==
  \/ \E r \in Runs : Turn(r) /\ CollectionCall(r)
  \/ \E r \in Runs : Turn(r) /\ CollectionStore(r)
  \/ \E r \in Runs : Turn(r) /\ CollectionReturn(r)
  \/ \E r \in Runs : Turn(r) /\ MapReference(r)
  \/ \E r \in Runs : Turn(r) /\ MapUnion(r)
  \/ \E r \in Runs : Turn(r) /\ MapEnum(r)
  \/ \E r \in Runs : Turn(r) /\ MapArray(r)
  \/ \E r \in Runs : Turn(r) /\ MapObject(r)
  \/ \E r \in Runs : Turn(r) /\ MapPrimitive(r)
  \/ \E r \in Runs : Turn(r) /\ MapFallback(r)
  \/ \E r \in Runs : Turn(r) /\ ArrayReturn(r)
  \/ \E r \in Runs : Turn(r) /\ ObjectCall(r)
  \/ \E r \in Runs : Turn(r) /\ ObjectResume(r)
  \/ \E r \in Runs : Turn(r) /\ ObjectReturn(r)
  \/ \E r \in Runs : Turn(r) /\ UnionCall(r)
  \/ \E r \in Runs : Turn(r) /\ UnionResume(r)
  \/ \E r \in Runs : Turn(r) /\ UnionReturn(r)
  \/ \E r \in Runs : Turn(r) /\ EmitTypeScript(r)
  \/ \E r \in Runs : Turn(r) /\ EmitGo(r)

Spec == Init /\ [][Next]_vars

(***************************************************************************)
(* Properties                                                              *)
(***************************************************************************)
Returned(r) == status[r] \in {"mapped", "rendered", "done"}

\* every TypeDefinition in def: def itself and the ones nested in it
RECURSIVE AllDefinitions(_)
AllDefinitions(def) ==
  <<def>> \o
  (IF def.kind = "array" THEN AllDefinitions(def.items)
   ELSE IF def.kind = "object"
   THEN Flatten([i \in 1..Len(def.properties) |->
                   AllDefinitions(def.properties[i].type)])
        \o (IF def.additionalProperties.tag = "type"
            THEN AllDefinitions(def.additionalProperties.type) ELSE <<>>)
   ELSE IF def.kind = "union"
   THEN Flatten([i \in 1..Len(def.types) |-> AllDefinitions(def.types[i])])
   ELSE <<>>)

RegistryDefinitions(entries) ==
  Flatten([i \in 1..Len(entries) |-> AllDefinitions(entries[i].def)])

Keys(entries) == { entries[i].name : i \in 1..Len(entries) }

IsObjectNode(schema) == DispatchRule(schema) = "object"

\* an object node with a property whose schema is the node itself, directly
\* or through one intermediate object
SelfReferential(schema) ==
  /\ IsObjectNode(schema)
  /\ \E i \in 1..Len(schema.properties) :
       LET child == Heap[schema.properties[i].node]
       IN \/ child = schema
          \/ /\ IsObjectNode(child)
             /\ \E j \in 1..Len(child.properties) :
                  Heap[child.properties[j].node] = schema

\* C1: mapping a type that has itself as the schema of a property (directly
\* or through one intermediate object) terminates, and the result holds a
\* Reference to the type at the cyclic edge.
C1_CycleTermination ==
  \A r \in Runs :
    (schemas # <<>> /\ SelfReferential(schemas[1].schema)) =>
      /\ status[r] # "overflow"
      /\ Returned(r) =>
           \E i \in 1..Len(RegistryDefinitions(registry[r])) :
             LET d == RegistryDefinitions(registry[r])[i]
             IN d.kind = "reference" /\ d.reference = schemas[1].name

C3_NameUniqueness ==
  \A r \in Runs :
    Returned(r) =>
      LET defs == RegistryDefinitions(registry[r])
      IN \A i, j \in 1..Len(defs) : i # j => defs[i].name # defs[j].name

\* C4: the reference of every Reference in a returned registry, at any
\* depth, is a key of that registry.
C4_ReferenceIntegrity ==
  \A r \in Runs :
    Returned(r) =>
      LET defs == RegistryDefinitions(registry[r])
      IN \A i \in 1..Len(defs) :
           defs[i].kind = "reference" => defs[i].reference \in Keys(registry[r])

\* a mapping call that returns in the step it is entered
LeafStep(r) == call[r] # <<>> /\ ret'[r] # <<>>

\* a mapping function that made nested calls returns
FrameReturn(r, fn) ==
  /\ frames[r] # <<>>
  /\ Top(r).fn = fn
  /\ frames'[r] = Pop(frames[r])
  /\ ret'[r] # <<>>

Rendered(r) == status[r] = "done"

IsPrefix(p, str) == Len(p) <= Len(str) /\ SubSeq(str, 1, Len(p)) = p

\* the lines of a declaration that start with the given token
LinesStarting(decl, token) ==
  SelectSeq(decl, LAMBDA line : line # <<>> /\ line[1] = token)

\* the text of an interface line after its indentation and readonly marker
RECURSIVE PropertyText(_)
PropertyText(line) ==
  IF line # <<>> /\ line[1] \in {"  ", "readonly "}
  THEN PropertyText(Tail(line)) ELSE line

\* the interface line declares the property, with or without the marker
DeclaresProperty(line, propName, marker) ==
  /\ line # <<>> /\ line[1] = "  "
  /\ IsPrefix(formatPropertyName(propName) \o marker \o <<": ">>,
              PropertyText(line))

\* C5: a mapped Object's requiredProperties is the schema's required list
\* (empty when absent), a property's required flag is true exactly when its
\* name is in the list, and with useOptionalProperties Emitter B marks a
\* property with '?' exactly when its required flag is false.
C5_RequiredFidelity ==
  /\ [][\A r \in Runs :
          FrameReturn(r, "mapObjectType") =>
            LET s == Top(r).schema
                d == ret'[r][1]
            IN /\ d.requiredProperties =
                    (IF "required" \in s.has THEN s.required ELSE <<>>)
               /\ Len(d.properties) = Len(s.properties)
               /\ \A i \in 1..Len(d.properties) :
                    /\ d.properties[i].name = s.properties[i].name
                    /\ d.properties[i].required <=>
                         \E k \in 1..Len(s.required) :
                           "required" \in s.has
                           /\ s.required[k] = s.properties[i].name]_vars
  /\ [](\A r \in Runs :
          (Rendered(r) /\ config.ts.useOptionalProperties) =>
            \A k \in 1..Len(registry[r]) :
              registry[r][k].def.kind = "object" =>
                \A i \in 1..Len(registry[r][k].def.properties) :
                  LET prop == registry[r][k].def.properties[i]
                      decl == tsText[r].decls[k]
                      marker == IF prop.required THEN <<>> ELSE <<"?">>
                      other == IF prop.required THEN <<"?">> ELSE <<>>
                  IN /\ \E n \in 1..Len(decl) :
                          DeclaresProperty(decl[n], prop.name, marker)
                     /\ \A n \in 1..Len(decl) :
                          ~DeclaresProperty(decl[n], prop.name, other))

C5_Witness ==
  \E r \in Runs :
    /\ Rendered(r) /\ config.ts.useOptionalProperties
    /\ \E k \in 1..Len(registry[r]) :
         LET d == registry[r][k].def
         IN /\ d.kind = "object"
            /\ \E i, j \in 1..Len(d.properties) :
                 d.properties[i].required /\ ~d.properties[j].required
            /\ \E n \in 1..Len(d.requiredProperties) :
                 \A i \in 1..Len(d.properties) :
                   d.properties[i].name # d.requiredProperties[n]

\* a node the dispatcher hands to mapEnumType
ReachesEnumRule(schema) ==
  /\ "enum" \in schema.has
  /\ "$ref" \notin schema.has
  /\ schema.has \cap {"allOf", "oneOf", "anyOf"} = {}

\* C6: a node with an enum list maps to an Enum with the source values in
\* source order; a string value is labelled with its first letter
\* capitalised, a non-string value at 0-based index i is labelled Value<i+1>;
\* baseType is integer for type integer, number for type number, string
\* otherwise.
C6_EnumMapping ==
  [][\A r \in Runs :
       (LeafStep(r) /\ ReachesEnumRule(call[r][1].schema)) =>
         LET s == call[r][1].schema
             d == ret'[r][1]
         IN /\ d.kind = "enum"
            /\ Len(d.values) = Len(s.enum)
            /\ \A i \in 1..Len(s.enum) :
                 /\ d.values[i].value = s.enum[i]
                 /\ s.enum[i].str =>
                      /\ Len(d.values[i].label) = Len(s.enum[i].s)
                      /\ \A n \in 1..Len(s.enum[i].s) :
                           d.values[i].label[n] =
                             IF n = 1 THEN toUpperCaseChar(s.enum[i].s[n])
                             ELSE s.enum[i].s[n]
                 /\ ~s.enum[i].str =>
                      d.values[i].label =
                        <<"V","a","l","u","e">> \o NumberToString(i)
            /\ d.baseType = (IF s.type \in {"integer", "number"}
                             THEN s.type ELSE "string")]_vars

C6_Witness ==
  \E r \in Runs :
    /\ Returned(r)
    /\ \E k \in 1..Len(registry[r]) :
         LET d == registry[r][k].def
         IN /\ d.kind = "enum"
            /\ \E i, j \in 1..Len(d.values) :
                 /\ d.values[i].value.str /\ d.values[i].label # d.values[i].value.s
                 /\ ~d.values[j].value.str /\ j > 1

\* C7: for every top-level Enum, the constant block of Emitter A and the
\* enum body of Emitter B hold exactly one member per EnumValue, in the
\* order of Enum.values.
C7_EnumRoundTrip ==
  \A r \in Runs :
    Rendered(r) =>
      \A k \in 1..Len(registry[r]) :
        registry[r][k].def.kind = "enum" =>
          LET d == registry[r][k].def
              goMembers == LinesStarting(goText[r].decls[k], "\t")
              tsMembers == LinesStarting(tsText[r].decls[k], "  ")
              goName == GoFormatTypeName(config.go, d.name)
          IN /\ Len(goMembers) = Len(d.values)
             /\ Len(tsMembers) = Len(d.values)
             /\ \A i \in 1..Len(d.values) :
                  LET v == d.values[i]
                  IN /\ IsPrefix(<<"\t">> \o goName \o v.label, goMembers[i])
                     /\ v.value.str =>
                          goMembers[i] =
                            <<"\t">> \o goName \o v.label \o <<" ">> \o goName
                            \o <<" = ", "\"">> \o v.value.s \o <<"\"">>
                     /\ tsMembers[i] =
                          <<"  ">> \o v.label \o <<" = ">>
                          \o (IF v.value.str
                              THEN <<"'">> \o v.value.s \o <<"'">>
                              ELSE NumberToString(v.value.n))
                          \o <<",">>

C7_Witness ==
  \E r \in Runs :
    /\ Rendered(r)
    /\ \E k \in 1..Len(registry[r]) :
         LET d == registry[r][k].def
         IN /\ d.kind = "enum"
            /\ Len(d.values) = 3
            /\ d.values[1].label # d.values[2].label
            /\ Len(LinesStarting(goText[r].decls[k], "\t")) = 3

\* C8: Emitter A renders an Object with no properties and
\* additionalProperties = Primitive{string} as a declaration that carries
\* the additional-property value type, not as it renders the same object
\* with additionalProperties = false.
C8_GoAdditionalProperties ==
  \A r \in Runs :
    Rendered(r) =>
      \A k \in 1..Len(registry[r]) :
        LET d == registry[r][k].def
        IN (/\ d.kind = "object"
            /\ d.properties = <<>>
            /\ d.additionalProperties.tag = "type"
            /\ d.additionalProperties.type.kind = "primitive"
            /\ d.additionalProperties.type.primitiveType = "string") =>
             /\ goText[r].decls[k] #
                  GoRenderType([d EXCEPT !.additionalProperties = [tag |-> "false"]],
                               config.go)
             /\ \E n \in 1..Len(goText[r].decls[k]) :
                  \E m \in 1..Len(goText[r].decls[k][n]) :
                    goText[r].decls[k][n][m] = "string"

AdditionalPropertyName(name) ==
  name \o <<"_","A","d","d","i","t","i","o","n","a","l",
            "P","r","o","p","e","r","t","y">>

\* C9: {type: object, additionalProperties: S} maps to an Object with no
\* properties whose additionalProperties is true for true, false for absent
\* or false, and otherwise the mapping of S under <Name>_AdditionalProperty;
\* Emitter B renders the index signature '[key: string]: T' exactly when
\* additionalProperties is not false, T being 'any' for true and the inline
\* rendering of the mapped type otherwise.
C9_AdditionalProperties ==
  /\ [][\A r \in Runs :
          (FrameReturn(r, "mapObjectType") /\ "properties" \notin Top(r).schema.has) =>
            LET s == Top(r).schema
                d == ret'[r][1]
                apName == AdditionalPropertyName(Top(r).name)
            IN /\ d.kind = "object"
               /\ d.properties = <<>>
               /\ s.additionalProperties = "true" =>
                    d.additionalProperties = [tag |-> "true"]
               /\ s.additionalProperties \in {"absent", "false"} =>
                    d.additionalProperties = [tag |-> "false"]
               /\ s.additionalProperties = "schema" =>
                    /\ d.additionalProperties.tag = "type"
                    /\ d.additionalProperties.type.name =
                         formatTypeName(apName, options)
                    /\ DispatchRule(Heap[s.apNode]) = "primitive" =>
                         d.additionalProperties.type =
                           mapPrimitiveType(Heap[s.apNode], apName, options)
                    /\ DispatchRule(Heap[s.apNode]) = "array" =>
                         /\ d.additionalProperties.type.kind = "array"
                         /\ d.additionalProperties.type.items.name =
                              formatTypeName(apName \o <<"I","t","e","m">>, options)]_vars
  /\ [](\A r \in Runs :
          Rendered(r) =>
            \A k \in 1..Len(registry[r]) :
              registry[r][k].def.kind = "object" =>
                LET d == registry[r][k].def
                    signatures == LinesStarting(tsText[r].decls[k], "  [key: string]: ")
                IN signatures =
                     IF d.additionalProperties.tag = "false" THEN <<>>
                     ELSE IF d.additionalProperties.tag = "true"
                     THEN << <<"  [key: string]: ", "any", ";">> >>
                     ELSE << <<"  [key: string]: ">>
                             \o TsRenderTypeReference(d.additionalProperties.type)
                             \o <<";">> >>)

C9_Witness ==
  \E r \in Runs :
    /\ Rendered(r)
    /\ \E k \in 1..Len(registry[r]) :
         LET d == registry[r][k].def
         IN /\ d.kind = "object"
            /\ d.properties = <<>>
            /\ d.additionalProperties.tag = "type"
            /\ Len(LinesStarting(tsText[r].decls[k], "  [key: string]: ")) = 1

\* the kind the dispatch order assigns to a node: the first rule that
\* matches (additionalProperties counts when it is true or a schema)
ExpectedKind(schema) ==
  IF "$ref" \in schema.has THEN "reference"
  ELSE IF \E c \in {"allOf", "oneOf", "anyOf"} : c \in schema.has THEN "union"
  ELSE IF "enum" \in schema.has THEN "enum"
  ELSE IF schema.type = "array" THEN "array"
  ELSE IF \/ schema.type = "object"
          \/ "properties" \in schema.has
          \/ schema.additionalProperties \in {"true", "schema"} THEN "object"
  ELSE "primitive"

ExpectedPrimitive(schema) ==
  IF schema.type \in {"string", "number", "integer", "boolean", "null"}
  THEN schema.type ELSE "string"

\* C10: the kind of the mapped definition is that of the first matching rule
\* in the order $ref, composition, enum, array, object, recognised primitive,
\* and Primitive{string} when none matches.
C10_DispatchOrder ==
  [][\A r \in Runs :
       /\ LeafStep(r) =>
            /\ ret'[r][1].kind = ExpectedKind(call[r][1].schema)
            /\ ret'[r][1].kind = "primitive" =>
                 ret'[r][1].primitiveType = ExpectedPrimitive(call[r][1].schema)
       /\ \A fn \in {"mapObjectType", "mapArrayType", "mapUnionType"} :
            FrameReturn(r, fn) => ret'[r][1].kind = ExpectedKind(Top(r).schema)]_vars

C10_Witness ==
  \E r \in Runs :
    /\ Returned(r)
    /\ Len(schemas) = 1
    /\ {"enum", "properties", "oneOf"} \subseteq schemas[1].schema.has
    /\ schemas[1].schema.type = "array"
    /\ registry[r][1].def.kind = "union"

\* the step in which the pending mapping call of run r is taken up
Handled(r) == call[r] # <<>> /\ call'[r] # call[r]

\* a node with none of the fields the dispatcher recognises
Undiscriminated(schema) ==
  /\ schema.has \cap {"$ref", "allOf", "oneOf", "anyOf", "enum", "properties"} = {}
  /\ schema.additionalProperties \in {"absent", "false"}
  /\ schema.type \notin {"string", "number", "integer", "boolean", "null",
                         "array", "object"}

\* C11: a node with a missing or unrecognised type and no $ref, composition,
\* enum, properties or additionalProperties maps to Primitive{string} that
\* carries the node's metadata, and no error is raised for it.
C11_Fallback ==
  [][\A r \in Runs :
       (Handled(r) /\ Undiscriminated(call[r][1].schema)) =>
         LET s == call[r][1].schema
         IN /\ status'[r] = "mapping"
            /\ ~error'[r].thrown
            /\ ret'[r] # <<>>
            /\ ret'[r][1].kind = "primitive"
            /\ ret'[r][1].primitiveType = "string"
            /\ ret'[r][1].name = formatTypeName(call[r][1].name, options)
            /\ ret'[r][1].description = s.description
            /\ ret'[r][1].nullable = s.nullable
            /\ ret'[r][1].default = s.default
            /\ ret'[r][1].example = s.example
            /\ ret'[r][1].format = s.format
            /\ ret'[r][1].deprecated = s.deprecated
            /\ ret'[r][1].constraints = s.constraints]_vars

C11_Witness ==
  \E r \in Runs :
    /\ Returned(r)
    /\ Len(schemas) = 1
    /\ Undiscriminated(schemas[1].schema)
    /\ schemas[1].schema.description # ""
    /\ registry[r][1].def.kind = "primitive"
    /\ registry[r][1].def.primitiveType = "string"
    /\ registry[r][1].def.description = schemas[1].schema.description

\* a node the dispatcher hands to mapArrayType, and that has no items
ArrayWithoutItems(schema) ==
  /\ schema.type = "array"
  /\ "items" \notin schema.has
  /\ schema.has \cap {"$ref", "allOf", "oneOf", "anyOf", "enum"} = {}

\* C12: mapping an array node without items, at any depth, raises an error
\* naming the array's assigned name; every active call is abandoned, the
\* caller gets no registry, not even a partial one, and nothing is retried.
C12_MissingItems ==
  /\ [][\A r \in Runs :
          /\ (Handled(r) /\ ArrayWithoutItems(call[r][1].schema)) =>
               /\ status'[r] = "error"
               /\ error'[r] = [thrown |-> TRUE, name |-> call[r][1].name]
               /\ frames'[r] = <<>>
               /\ ret'[r] = <<>>
          /\ status[r] = "error" =>
               /\ status'[r] = "error"
               /\ error'[r] = error[r]
               /\ idx'[r] = idx[r]
               /\ call'[r] = <<>>]_vars
  /\ [](\A r \in Runs :
          status[r] = "error" => registry[r] = <<>>)

C12_Witness ==
  \E r \in Runs :
    /\ status[r] = "error"
    /\ error[r].thrown
    /\ result[r] # <<>>
    /\ registry[r] = <<>>
    /\ \A i \in 1..Len(schemas) : schemas[i].name # error[r].name

\* C13: when mapping raises the malformed-input error, the run ends failed
\* and neither target has any output; an emitter starts only after
\* mapSchemaCollection has returned the whole registry.
C13_AbortAllTargets ==
  /\ [](\A r \in Runs :
          status[r] = "error" =>
            /\ error[r].thrown
            /\ tsText[r] = <<>>
            /\ goText[r] = <<>>)
  /\ [][\A r \in Runs :
          (tsText'[r] # tsText[r] \/ goText'[r] # goText[r]) =>
            /\ status[r] \in {"mapped", "rendered"}
            /\ ~error[r].thrown
            /\ frames[r] = <<>> /\ call[r] = <<>>
            /\ idx[r] > Len(schemas)
            /\ registry[r] = result[r]
            /\ registry'[r] = registry[r]]_vars

C13_Witness ==
  \E r \in Runs :
    /\ status[r] = "error"
    /\ Len(result[r]) = 1
    /\ idx[r] = 2
    /\ tsText[r] = <<>> /\ goText[r] = <<>>
    /\ \E q \in Runs : q # r /\ Finished(q)

\* the registry of run r holds a Reference to a name that is not a key
HasDanglingReference(r) ==
  \E i \in 1..Len(RegistryDefinitions(registry[r])) :
    LET d == RegistryDefinitions(registry[r])[i]
    IN d.kind = "reference" /\ d.reference \notin Keys(registry[r])

\* C14: a registry that holds a Reference to a name that is not one of its
\* keys is not rendered: the emitters report the error and emit no text.
C14_UnresolvedReference ==
  \A r \in Runs :
    (Returned(r) /\ HasDanglingReference(r)) =>
      /\ tsText[r] = <<>>
      /\ goText[r] = <<>>
      /\ status[r] # "done"

(***************************************************************************)
(* The emitters on a list of definitions handed to them directly           *)
(* (generateTypes(types)), which need not come from the mapper             *)
(***************************************************************************)
KnownKinds ==
  {"primitive", "enum", "array", "object", "union", "reference", "map"}

EmitCount == mapPrimitiveType(Heap[2], nA, DefaultOptions)

EmitStatus == mapEnumType(Heap[3], nB, DefaultOptions)

EmitUser ==
  LET required == RequiredProperties(Heap[6])
      idType == mapPrimitiveType(Heap[1], nUser \o <<"_">> \o pid, DefaultOptions)
      tagsType ==
        ArrayDefinition(Heap[4], nUser \o <<"_">> \o ptags, DefaultOptions,
          mapPrimitiveType(Heap[1], nUser \o <<"_">> \o ptags \o <<"I","t","e","m">>,
                           DefaultOptions))
      emailType == mapPrimitiveType(Heap[2], nUser \o <<"_">> \o pemail, DefaultOptions)
  IN ObjectDefinition(Heap[6], nUser, DefaultOptions,
       <<PropertyDefinition(pid, Heap[1], idType, required),
         PropertyDefinition(ptags, Heap[4], tagsType, required),
         PropertyDefinition(pemail, Heap[2], emailType, required)>>,
       [tag |-> "false"])

\* an object with a required nullable property and an optional enum property
EmitNode ==
  LET required == RequiredProperties(Heap[23])
      idType == mapPrimitiveType(Heap[2], nNode \o <<"_">> \o pid, DefaultOptions)
      typeType == mapEnumType(Heap[3], nNode \o <<"_">> \o ptype, DefaultOptions)
  IN ObjectDefinition(Heap[23], nNode, DefaultOptions,
       <<PropertyDefinition(pid, Heap[2], idType, required),
         PropertyDefinition(ptype, Heap[3], typeType, required)>>,
       [tag |-> "false"])

EmitDangling == mapReference(Heap[12], nNode, DefaultOptions)

EmitMap ==
  [kind |-> "map", name |-> <<"M">>, description |-> "", keyType |-> <<>>,
   valueType |-> EmitCount, nullable |-> FALSE, deprecated |-> FALSE]

\* definitions whose kind is none of the known ones
EmitTuple == [kind |-> "tuple", name |-> <<"T","u","p">>, description |-> "pair"]

EmitIntersection == [kind |-> "intersection", name |-> <<"I">>]

EmitTypes ==
  {EmitCount, EmitStatus, EmitUser, EmitNode, EmitDangling, EmitMap,
   EmitTuple, EmitIntersection}

\* longest list of definitions handed to an emitter
MaxTypes == 2

\* the lists handed to generateTypes, repeats allowed
EmitLists == UNION { [1..n -> EmitTypes] : n \in 0..MaxTypes }

EmitConfigs ==
  { [go |-> [GoDefaultConfig EXCEPT !.includeJsonTags = j,
                                    !.usePointersForOptional = p,
                                    !.omitEmptyTags = o],
     ts |-> [TsDefaultConfig EXCEPT !.useOptionalProperties = p]]
    : j \in BOOLEAN, p \in BOOLEAN, o \in BOOLEAN }

InitEmit ==
  /\ schemas = <<>>
  /\ options = DefaultOptions
  /\ config \in EmitConfigs
  /\ \E types \in EmitLists :
       registry = [r \in Runs |->
                     [i \in 1..Len(types) |->
                        [name |-> types[i].name, def |-> types[i]]]]
  /\ result = registry
  /\ contexts = [c \in Runs |-> createMappingContext]
  /\ frames = [r \in Runs |-> <<>>]
  /\ call = [r \in Runs |-> <<>>]
  /\ ret = [r \in Runs |-> <<>>]
  /\ idx = [r \in Runs |-> 1]
  /\ status = [r \in Runs |-> "mapped"]
  /\ error = [r \in Runs |-> NoError]
  /\ tsText = [r \in Runs |-> <<>>]
  /\ goText = [r \in Runs |-> <<>>]
  /\ supplied = [r \in Runs |-> createMappingContext]
  /\ cli = NoCli

NextEmit ==
  \/ \E r \in Runs : Turn(r) /\ EmitTypeScript(r)
  \/ \E r \in Runs : Turn(r) /\ EmitGo(r)

SpecEmit == InitEmit /\ [][NextEmit]_vars

\* the sequence without its k-th element
RemoveAt(seq, k) ==
  [i \in 1..(Len(seq) - 1) |-> IF i < k THEN seq[i] ELSE seq[i + 1]]

\* C15: for an entry of the list whose kind is none of the seven known
\* kinds, each emitter renders the empty string and raises nothing, and the
\* other entries are rendered exactly as they are without that entry.
C15_UnsupportedVariant ==
  \A r \in Runs :
    /\ status[r] \notin {"error", "overflow"}
    /\ Rendered(r) =>
         \A k \in 1..Len(registry[r]) :
           registry[r][k].def.kind \notin KnownKinds =>
             LET types == Values(registry[r])
                 tsRest == TsGenerateTypes(RemoveAt(types, k), config.ts)
                 goRest == GoGenerateTypes(RemoveAt(types, k), config.go)
             IN /\ tsText[r].decls[k] = <<>>
                /\ goText[r].decls[k] = <<>>
                /\ RemoveAt(tsText[r].decls, k) = tsRest.decls
                /\ RemoveAt(goText[r].decls, k) = goRest.decls
                /\ tsText[r].header = tsRest.header
                /\ goText[r].header = goRest.header
                /\ goText[r].package = goRest.package

C15_Witness ==
  \E r \in Runs :
    /\ Rendered(r)
    /\ Len(registry[r]) = 2
    /\ registry[r][1].def.kind = "tuple"
    /\ registry[r][2].def.kind = "object"
    /\ tsText[r].decls[1] = <<>> /\ tsText[r].decls[2] # <<>>
    /\ goText[r].decls[1] = <<>> /\ goText[r].decls[2] # <<>>

\* what an emitter run hands back to its caller about entry k, besides the
\* declarations of the other entries: a raised error, or text in the
\* entry's own place
Reported(r, k) ==
  \/ error[r].thrown
  \/ status[r] \in {"error", "overflow"}
  \/ tsText[r].decls[k] # <<>>
  \/ goText[r].decls[k] # <<>>

\* C16: when an emitter drops an entry because its variant is unsupported,
\* the caller can observe it: the run hands back some report of the
\* omission.
C16_DetectableOmission ==
  \A r \in Runs :
    Rendered(r) =>
      \A k \in 1..Len(registry[r]) :
        registry[r][k].def.kind \notin KnownKinds => Reported(r, k)

(***************************************************************************)
(* Both ways of use: the pipeline from a schema collection, and the        *)
(* emitters on a list handed to them                                       *)
(***************************************************************************)
InitAny == Init \/ InitEmit

SpecAny == InitAny /\ [][Next]_vars

\* C17: mapSchemaCollection returns one entry per input schema, keyed by
\* the input name, in input order (the empty collection gives the empty
\* registry); each emitter renders the list it is given in one pass, one
\* declaration per entry in the order of the list, repeats included.
C17_OrderPreservation ==
  /\ [][\A r \in Runs :
          (status[r] = "mapping" /\ status'[r] = "mapped") =>
            /\ Len(registry'[r]) = Len(schemas)
            /\ \A i \in 1..Len(schemas) :
                 /\ registry'[r][i].name = schemas[i].name
                 /\ registry'[r][i].def.name =
                      formatTypeName(schemas[i].name, options)
                 /\ registry'[r][i].def.kind = ExpectedKind(schemas[i].schema)]_vars
  /\ [](\A r \in Runs :
          Rendered(r) =>
            /\ Len(tsText[r].decls) = Len(registry[r])
            /\ Len(goText[r].decls) = Len(registry[r])
            /\ \A i \in 1..Len(registry[r]) :
                 /\ tsText[r].decls[i] = TsRenderType(registry[r][i].def, config.ts)
                 /\ goText[r].decls[i] = GoRenderType(registry[r][i].def, config.go))

C17_Witness ==
  \E r \in Runs :
    /\ Rendered(r)
    /\ Len(schemas) = 2
    /\ Len(registry[r]) = 2
    /\ registry[r][1].name = schemas[1].name
    /\ registry[r][2].name = schemas[2].name
    /\ registry[r][1].def.kind # registry[r][2].def.kind
    /\ tsText[r].decls[1] # tsText[r].decls[2]

\* C18: once an Object has been mapped under a name and stored in
\* processedTypes, mapping an object under that name again with the same
\* context returns the stored definition, whatever schema it is given.
C18_CacheIdempotence ==
  [][\A r \in Runs :
       (/\ FrameReturn(r, "mapObjectType")
        /\ Top(r).name \in DOMAIN Context(r).processedTypes) =>
         ret'[r][1] = Context(r).processedTypes[Top(r).name]]_vars

(***************************************************************************)
(* Mapping runs side by side: run 0 maps alone, then runs 1 and 2 map the  *)
(* same collection with their steps interleaved in every possible way      *)
(***************************************************************************)
ParRuns == {0} \cup Runs

ParInputs ==
  CoreDocs
  \X {DefaultOptions, [DefaultOptions EXCEPT !.namingStrategy = "camelCase"]}
  \X {CHOOSE c \in Configs : c.go.exportTypes}

InitPar ==
  /\ \E in \in ParInputs :
       /\ schemas = in[1]
       /\ options = in[2]
       /\ config = in[3]
  /\ contexts = [c \in ParRuns |-> createMappingContext]
  /\ frames = [r \in ParRuns |-> <<>>]
  /\ call = [r \in ParRuns |-> <<>>]
  /\ ret = [r \in ParRuns |-> <<>>]
  /\ idx = [r \in ParRuns |-> 1]
  /\ result = [r \in ParRuns |-> <<>>]
  /\ registry = [r \in ParRuns |-> <<>>]
  /\ status = [r \in ParRuns |-> "mapping"]
  /\ error = [r \in ParRuns |-> NoError]
  /\ tsText = [r \in ParRuns |-> <<>>]
  /\ goText = [r \in ParRuns |-> <<>>]
  /\ supplied = [r \in ParRuns |-> createMappingContext]
  /\ cli = NoCli

\* mapSchemaCollection has returned or thrown
Ended(r) == status[r] \in {"mapped", "error", "overflow"}

ParTurn(r) == r = 0 \/ Ended(0)

NextPar ==
  \/ \E r \in ParRuns : ParTurn(r) /\ CollectionCall(r)
  \/ \E r \in ParRuns : ParTurn(r) /\ CollectionStore(r)
  \/ \E r \in ParRuns : ParTurn(r) /\ CollectionReturn(r)
  \/ \E r \in ParRuns : ParTurn(r) /\ MapReference(r)
  \/ \E r \in ParRuns : ParTurn(r) /\ MapUnion(r)
  \/ \E r \in ParRuns : ParTurn(r) /\ MapEnum(r)
  \/ \E r \in ParRuns : ParTurn(r) /\ MapArray(r)
  \/ \E r \in ParRuns : ParTurn(r) /\ MapObject(r)
  \/ \E r \in ParRuns : ParTurn(r) /\ MapPrimitive(r)
  \/ \E r \in ParRuns : ParTurn(r) /\ MapFallback(r)
  \/ \E r \in ParRuns : ParTurn(r) /\ ArrayReturn(r)
  \/ \E r \in ParRuns : ParTurn(r) /\ ObjectCall(r)
  \/ \E r \in ParRuns : ParTurn(r) /\ ObjectResume(r)
  \/ \E r \in ParRuns : ParTurn(r) /\ ObjectReturn(r)
  \/ \E r \in ParRuns : ParTurn(r) /\ UnionCall(r)
  \/ \E r \in ParRuns : ParTurn(r) /\ UnionResume(r)
  \/ \E r \in ParRuns : ParTurn(r) /\ UnionReturn(r)

SpecPar == InitPar /\ [][NextPar]_vars

\* C19: every run starts from a processing stack and a cache of its own,
\* and whatever the interleaving of two runs with distinct contexts, each
\* ends with the outcome, the registry and the context of the run made
\* alone; a step of one run leaves the other run's context untouched.
C19_ContextIsolation ==
  /\ [](\A r \in Runs :
          /\ (/\ status[r] = "mapping" /\ idx[r] = 1
              /\ frames[r] = <<>> /\ call[r] = <<>> /\ ret[r] = <<>>)
               => contexts[r] = createMappingContext
          /\ (Ended(0) /\ Ended(r)) =>
               /\ status[r] = status[0]
               /\ error[r] = error[0]
               /\ registry[r] = registry[0]
               /\ contexts[r] = contexts[0])
  /\ [][\A r, q \in Runs :
          (r # q /\ <<frames[r], call[r], ret[r], idx[r], status[r]>>
                    # <<frames'[r], call'[r], ret'[r], idx'[r], status'[r]>>) =>
            /\ contexts'[q] = contexts[q]
            /\ frames'[q] = frames[q]
            /\ result'[q] = result[q]]_vars

C19_Witness ==
  /\ Ended(0) /\ Ended(1)
  /\ status[1] = "mapped"
  /\ Len(registry[1]) = 2
  /\ registry[1] = registry[0]
  /\ contexts[1].processedTypes # <<>>
  /\ status[2] = "mapping"
  /\ Len(contexts[2].processingStack) = 2
  /\ contexts[2].processedTypes = <<>>

\* a struct line without its leading tabs
RECURSIVE StripTabs(_)
StripTabs(line) ==
  IF line # <<>> /\ line[1] = "\t" THEN StripTabs(Tail(line)) ELSE line

\* the lines of a struct declaration that declare a field
FieldLines(decl) ==
  LET IsField(line) ==
        /\ line # <<>> /\ line[1] = "\t"
        /\ StripTabs(line) # <<>>
        /\ StripTabs(line)[1] \notin
             {"// ", "// Deprecated: This field is deprecated"}
      fields == SelectSeq(decl, IsField)
  IN [i \in 1..Len(fields) |-> StripTabs(fields[i])]

\* C20: a struct rendered by Emitter A has one field per property, in
\* property order; the field's type carries the pointer marker exactly when
\* usePointersForOptional is on and the property is not required, its json
\* tag carries ',omitempty' exactly when omitEmptyTags is on and the
\* property is not required, and without includeJsonTags there is no tag.
C20_GoOptionalFields ==
  \A r \in Runs :
    Rendered(r) =>
      \A k \in 1..Len(registry[r]) :
        registry[r][k].def.kind = "object" =>
          LET d == registry[r][k].def
              fields == FieldLines(goText[r].decls[k])
              cfg == config.go
          IN /\ Len(fields) = Len(d.properties)
             /\ \A i \in 1..Len(d.properties) :
                  LET prop == d.properties[i]
                      marker == IF cfg.usePointersForOptional /\ ~prop.required
                                THEN <<"*">> ELSE <<>>
                      omit == IF cfg.omitEmptyTags /\ ~prop.required
                              THEN <<",omitempty">> ELSE <<>>
                      tag == IF cfg.includeJsonTags
                             THEN <<" BACKTICK", "json:\"">> \o prop.name \o omit
                                  \o <<"\"", "BACKTICK">>
                             ELSE <<>>
                  IN fields[i] =
                       capitalizeFirst(prop.name) \o <<" ">> \o marker
                       \o GoRenderTypeReference(prop.type, cfg) \o tag

C20_Witness ==
  \E r \in Runs :
    /\ Rendered(r)
    /\ config.go.usePointersForOptional
    /\ config.go.omitEmptyTags
    /\ config.go.includeJsonTags
    /\ \E k \in 1..Len(registry[r]) :
         LET d == registry[r][k].def
         IN /\ d.kind = "object"
            /\ Len(FieldLines(goText[r].decls[k])) = 3
            /\ d.properties[1].required
            /\ ~d.properties[3].required
            /\ Nullable(d.properties[3].type)

(***************************************************************************)
(* The generate command                                                    *)
(***************************************************************************)
\* path.join(cwd, p)
join(cwd, path) == <<cwd, path>>

\* commander's option values: an option declared with a default carries the
\* default when the command line does not give it, any other is undefined
CommandOptions(argv) ==
  [config |-> IF argv.config = "undefined" THEN "./gotsync.config.json"
              ELSE argv.config,
   schema |-> IF argv.schema = "undefined" THEN "./schemas/learning.yaml" ELSE argv.schema,
   from |-> argv.from,
   goOnly |-> argv.goOnly,
   tsOnly |-> argv.tsOnly]

\* the command lines tried
CommandLines ==
  [config : {"undefined"},
   schema : {"undefined", "api.yaml"},
   from : {"undefined", "from.yaml"},
   goOnly : BOOLEAN,
   tsOnly : BOOLEAN]

\* the config file: missing, not JSON, or an object with or without 'schema'
ConfigFiles ==
  {[exists |-> FALSE, valid |-> FALSE, schema |-> "undefined"],
   [exists |-> TRUE, valid |-> FALSE, schema |-> "undefined"],
   [exists |-> TRUE, valid |-> TRUE, schema |-> "undefined"],
   [exists |-> TRUE, valid |-> TRUE, schema |-> "conf.yaml"]}

SchemaPaths ==
  { join("cwd", p) : p \in {"api.yaml", "from.yaml", "conf.yaml", "./schemas/learning.yaml"} }

\* the schema files on disk
SchemaFiles == {SchemaPaths, SchemaPaths \ {join("cwd", "./schemas/learning.yaml")}, {}}

\* components.schemas of the documents on disk; the last does not parse
CliDocuments ==
  { <<>>,
    <<E(nUser, Heap[6]), E(nB, Heap[3])>>,
    <<E(nA, Heap[10]), E(nNode, Heap[11])>>,
    <<E(nA, Heap[24]), E(nB, Heap[36])>>,
    <<E(nA, Heap[18])>> }

\* the entries of components.schemas that are not ReferenceObjects
SchemaObjects(entries) ==
  SelectSeq(entries, LAMBDA e : "$ref" \notin e.schema.has)

\* the generator options the command passes
CliConfig ==
  [go |-> [GoDefaultConfig EXCEPT !.fileHeader = "// Auto-generated Go types",
             !.includeJsonTags = TRUE, !.includeValidationTags = FALSE,
             !.usePointersForOptional = TRUE, !.omitEmptyTags = TRUE],
   ts |-> [TsDefaultConfig EXCEPT
             !.fileHeader = "// Auto-generated TypeScript types",
             !.includeJsDoc = TRUE, !.useOptionalProperties = TRUE,
             !.exportTypes = TRUE]]

CliRuns == {1}

InitCli ==
  /\ schemas = <<>>
  /\ options = DefaultOptions
  /\ config = CliConfig
  /\ contexts = [c \in Runs |-> createMappingContext]
  /\ frames = [r \in Runs |-> <<>>]
  /\ call = [r \in Runs |-> <<>>]
  /\ ret = [r \in Runs |-> <<>>]
  /\ idx = [r \in Runs |-> 1]
  /\ result = [r \in Runs |-> <<>>]
  /\ registry = [r \in Runs |-> <<>>]
  /\ status = [r \in Runs |-> "idle"]
  /\ error = [r \in Runs |-> NoError]
  /\ tsText = [r \in Runs |-> <<>>]
  /\ goText = [r \in Runs |-> <<>>]
  /\ supplied = [r \in Runs |-> createMappingContext]
  /\ \E argv \in CommandLines, file \in ConfigFiles, files \in SchemaFiles,
        doc \in CliDocuments, parses \in BOOLEAN :
       cli = [pc |-> "start", argv |-> argv, configFile |-> file,
              files |-> files, document |-> doc, parses |-> parses,
              schemaPath |-> <<>>, written |-> {},
              exit |-> "none", completed |-> FALSE]

\* process.exit(1)
Exit1 == [cli EXCEPT !.pc = "exit", !.exit = "1"]

CliUnchanged ==
  UNCHANGED <<options, config, contexts, frames, call, ret, idx, result,
              registry, error, supplied>>

\* the schema path: --from, then --schema, then the config file
ResolveSchemaPath ==
  /\ cli.pc = "start"
  /\ LET opts == CommandOptions(cli.argv)
     IN cli' =
          IF opts.from # "undefined"
          THEN [cli EXCEPT !.pc = "resolved", !.schemaPath = join("cwd", opts.from)]
          ELSE IF opts.schema # "undefined"
          THEN [cli EXCEPT !.pc = "resolved", !.schemaPath = join("cwd", opts.schema)]
          ELSE IF ~cli.configFile.exists THEN Exit1
          ELSE IF ~cli.configFile.valid THEN Exit1
          ELSE [cli EXCEPT !.pc = "resolved", !.schemaPath =
                  join("cwd", IF cli.configFile.schema # "undefined"
                              THEN cli.configFile.schema
                              ELSE "./schemas/learning.yaml")]
  /\ CliUnchanged
  /\ UNCHANGED <<schemas, status, tsText, goText>>

\* existsSync(schemaPath)
CheckSchemaFile ==
  /\ cli.pc = "resolved"
  /\ cli' = IF cli.schemaPath \notin cli.files THEN Exit1
            ELSE [cli EXCEPT !.pc = "checked"]
  /\ CliUnchanged
  /\ UNCHANGED <<schemas, status, tsText, goText>>

\* parseSchema, the filter, and the call of mapSchemaCollection
ParseAndMap(r) ==
  /\ cli.pc = "checked"
  /\ IF ~cli.parses
     THEN /\ cli' = Exit1
          /\ UNCHANGED <<schemas, status>>
     ELSE /\ cli' = [cli EXCEPT !.pc = "mapping"]
          /\ schemas' = SchemaObjects(cli.document)
          /\ status' = [status EXCEPT ![r] = "mapping"]
  /\ CliUnchanged
  /\ UNCHANGED <<tsText, goText>>

\* the catch around the pipeline
CatchMappingError(r) ==
  /\ cli.pc = "mapping"
  /\ status[r] \in {"error", "overflow"}
  /\ cli' = Exit1
  /\ CliUnchanged
  /\ UNCHANGED <<schemas, status, tsText, goText>>

\* generateTypeScriptFromSchema unless --go-only
GenerateTypeScript(r) ==
  /\ cli.pc = "mapping"
  /\ status[r] = "mapped"
  /\ IF ~CommandOptions(cli.argv).goOnly
     THEN /\ tsText' = [tsText EXCEPT ![r] =
                          TsGenerateTypes(Values(registry[r]), config.ts)]
          /\ cli' = [cli EXCEPT !.pc = "typescript",
                                !.written = @ \cup {"types.ts"}]
     ELSE /\ cli' = [cli EXCEPT !.pc = "typescript"]
          /\ UNCHANGED tsText
  /\ CliUnchanged
  /\ UNCHANGED <<schemas, status, goText>>

\* generateGoFromSchema unless --ts-only
GenerateGo(r) ==
  /\ cli.pc = "typescript"
  /\ IF ~CommandOptions(cli.argv).tsOnly
     THEN /\ goText' = [goText EXCEPT ![r] =
                          GoGenerateTypes(Values(registry[r]), config.go)]
          /\ cli' = [cli EXCEPT !.pc = "go", !.written = @ \cup {"types.go"}]
     ELSE /\ cli' = [cli EXCEPT !.pc = "go"]
          /\ UNCHANGED goText
  /\ CliUnchanged
  /\ UNCHANGED <<schemas, status, tsText>>

\* 'Code generation completed successfully!'
ReportSuccess(r) ==
  /\ cli.pc = "go"
  /\ cli' = [cli EXCEPT !.pc = "end", !.completed = TRUE, !.exit = "0"]
  /\ status' = [status EXCEPT ![r] = "done"]
  /\ CliUnchanged
  /\ UNCHANGED <<schemas, tsText, goText>>

NextCli ==
  \/ ResolveSchemaPath
  \/ CheckSchemaFile
  \/ \E r \in CliRuns : ParseAndMap(r)
  \/ \E r \in CliRuns : CollectionCall(r)
  \/ \E r \in CliRuns : CollectionStore(r)
  \/ \E r \in CliRuns : CollectionReturn(r)
  \/ \E r \in CliRuns : MapReference(r)
  \/ \E r \in CliRuns : MapUnion(r)
  \/ \E r \in CliRuns : MapEnum(r)
  \/ \E r \in CliRuns : MapArray(r)
  \/ \E r \in CliRuns : MapObject(r)
  \/ \E r \in CliRuns : MapPrimitive(r)
  \/ \E r \in CliRuns : MapFallback(r)
  \/ \E r \in CliRuns : ArrayReturn(r)
  \/ \E r \in CliRuns : ObjectCall(r)
  \/ \E r \in CliRuns : ObjectResume(r)
  \/ \E r \in CliRuns : ObjectReturn(r)
  \/ \E r \in CliRuns : UnionCall(r)
  \/ \E r \in CliRuns : UnionResume(r)
  \/ \E r \in CliRuns : UnionReturn(r)
  \/ \E r \in CliRuns : CatchMappingError(r)
  \/ \E r \in CliRuns : GenerateTypeScript(r)
  \/ \E r \in CliRuns : GenerateGo(r)
  \/ \E r \in CliRuns : ReportSuccess(r)

SpecCli == InitCli /\ [][NextCli]_vars

\* C21: once the schema path is resolved, it is the --from path when --from
\* is given, otherwise the --schema path when --schema is given, otherwise
\* the config file's schema; with neither flag on the command line the
\* config file's schema path is used, and a missing config file ends the
\* run with exit status 1.
C21_SchemaPathPriority ==
  cli.pc # "start" =>
    IF cli.argv.from # "undefined"
    THEN cli.schemaPath = join("cwd", cli.argv.from)
    ELSE IF cli.argv.schema # "undefined"
    THEN cli.schemaPath = join("cwd", cli.argv.schema)
    ELSE IF ~cli.configFile.exists
    THEN cli.exit = "1"
    ELSE cli.configFile.valid /\ cli.configFile.schema # "undefined" =>
           cli.schemaPath = join("cwd", cli.configFile.schema)

\* C30: a run that reports success has written types.ts or types.go, and
\* each file is written exactly when the other target's -only flag is off.
C30_SuccessWritesOutput ==
  cli.completed =>
    /\ cli.written # {}
    /\ ("types.ts" \in cli.written) = ~cli.argv.goOnly
    /\ ("types.go" \in cli.written) = ~cli.argv.tsOnly

(***************************************************************************)
(* mapOpenAPISchemaToType called with a context the caller supplies: the   *)
(* caller maps its entries one after the other with the same context       *)
(***************************************************************************)
CtxStacks == {<<>>, <<nA>>, <<nA_b>>, <<nNode, nA>>}

CtxDocs ==
  { <<E(nA, Heap[i])>> : i \in {6, 10, 13, 18, 23, 24, 36} }
  \cup { <<E(nB, Heap[13]), E(nA, Heap[6])>>,
         <<E(nB, Heap[9])>> }

InitCtx ==
  /\ schemas \in CtxDocs
  /\ options \in {DefaultOptions,
                  [DefaultOptions EXCEPT !.namingStrategy = "camelCase"]}
  /\ config = CliConfig
  /\ \E stack \in CtxStacks :
       supplied = [r \in Runs |->
                     [processingStack |-> stack, processedTypes |-> <<>>]]
  /\ contexts = supplied
  /\ frames = [r \in Runs |-> <<>>]
  /\ call = [r \in Runs |-> <<>>]
  /\ ret = [r \in Runs |-> <<>>]
  /\ idx = [r \in Runs |-> 1]
  /\ result = [r \in Runs |-> <<>>]
  /\ registry = [r \in Runs |-> <<>>]
  /\ status = [r \in Runs |-> "mapping"]
  /\ error = [r \in Runs |-> NoError]
  /\ tsText = [r \in Runs |-> <<>>]
  /\ goText = [r \in Runs |-> <<>>]
  /\ cli = NoCli

SpecCtx == InitCtx /\ [][Next]_vars

\* C22: when mapObjectType is entered with an assigned name that is on the
\* processing stack, it returns a Reference whose reference is that name in
\* the same step: no frame is opened, no nested call is made, and the
\* processing stack and processedTypes stay as they were.
C22_CycleShortCircuit ==
  [][\A r \in Runs :
       (/\ Handled(r)
        /\ DispatchRule(call[r][1].schema) = "object"
        /\ Includes(Context(r).processingStack, call[r][1].name))
       => /\ ret'[r] # <<>>
          /\ ret'[r][1].kind = "reference"
          /\ ret'[r][1].reference = call[r][1].name
          /\ call'[r] = <<>>
          /\ frames'[r] = frames[r]
          /\ contexts' = contexts
          /\ status'[r] = "mapping"]_vars

C22_Witness ==
  \E r \in Runs :
    /\ status[r] = "mapping"
    /\ ret[r] # <<>>
    /\ DOMAIN ret[r][1] = {"kind", "name", "reference"}
    /\ Includes(supplied[r].processingStack, ret[r][1].reference)
    /\ ret[r][1].name # ret[r][1].reference
    /\ frames[r] # <<>>

\* the assigned names of the mapObjectType calls that are active in run r,
\* outermost first
ExpandingNames(r) ==
  LET objects == SelectSeq(frames[r], LAMBDA f : f.fn = "mapObjectType")
  IN [i \in 1..Len(objects) |-> objects[i].name]

\* C23: while a run maps, the processing stack is the stack the run began
\* with followed by the names of the objects whose bodies are being
\* expanded, outermost first; the stack changes only when such a body is
\* entered or left, and when the run has returned normally the stack is
\* again the one it began with (empty for a run begun with an empty stack).
C23_StackDiscipline ==
  \A r \in Runs :
    /\ status[r] = "mapping" =>
         Context(r).processingStack =
           supplied[r].processingStack \o ExpandingNames(r)
    /\ Returned(r) =>
         Context(r).processingStack = supplied[r].processingStack

C23_Witness ==
  \E r \in Runs :
    /\ Returned(r)
    /\ supplied[r].processingStack # <<>>
    /\ Context(r).processingStack = supplied[r].processingStack
    /\ \E k \in 1..Len(registry[r]) :
         LET d == registry[r][k].def
         IN /\ d.kind = "object"
            /\ \E i \in 1..Len(d.properties) : d.properties[i].type.kind = "object"

\* C26: when a mapping call made with a caller-supplied context fails on an
\* array without items below one or more objects, the context's processing
\* stack is what it was at entry: it holds no name the failed call pushed.
C26_ContextAfterFailure ==
  \A r \in Runs :
    status[r] = "error" =>
      Context(r).processingStack = supplied[r].processingStack

\* the branches of a composition node: allOf, then oneOf, then anyOf, each
\* with its tag, 0-based index and schema
Branches(schema) ==
  LET Of(has, list, tag) ==
        IF has \in schema.has
        THEN [i \in 1..Len(list) |->
                [tag |-> tag, index |-> i - 1, schema |-> Heap[list[i]]]]
        ELSE <<>>
  IN Of("allOf", schema.allOf, <<"_","A","l","l","O","f","_">>)
     \o Of("oneOf", schema.oneOf, <<"_","O","n","e","O","f","_">>)
     \o Of("anyOf", schema.anyOf, <<"_","A","n","y","O","f","_">>)

\* C24: when mapUnionType returns, its value is a Union with one type per
\* branch: the allOf branches, then the oneOf branches, then the anyOf
\* branches, each in source order, each mapped by the dispatch order under
\* the name <Name>_AllOf_<i>, <Name>_OneOf_<i> or <Name>_AnyOf_<i> with its
\* 0-based index; allOf branches stay separate types, and discriminated is
\* true exactly when the node has oneOf.
C24_CompositionMapping ==
  [][\A r \in Runs :
       FrameReturn(r, "mapUnionType") =>
         LET f == Top(r)
             d == ret'[r][1]
             branches == Branches(f.schema)
         IN /\ d.kind = "union"
            /\ d.discriminated = ("oneOf" \in f.schema.has)
            /\ Len(d.types) = Len(branches)
            /\ \A i \in 1..Len(branches) :
                 /\ d.types[i].kind = ExpectedKind(branches[i].schema)
                 /\ d.types[i].name =
                      formatTypeName(f.name \o branches[i].tag
                                     \o NumberToString(branches[i].index),
                                     options)]_vars

C24_Witness ==
  \E r \in Runs :
    /\ status[r] = "mapping"
    /\ ret[r] # <<>>
    /\ ret[r][1].kind = "union"
    /\ ret[r][1].discriminated
    /\ Len(ret[r][1].types) = 4
    /\ ret[r][1].types[1].kind = "primitive"
    /\ ret[r][1].types[3].kind = "object"
    /\ ret[r][1].types[4].kind = "array"

\* every name of the stack is a proper prefix of every name above it
PrefixChain(stack) ==
  \A i, j \in 1..Len(stack) :
    i < j => IsPrefix(stack[i], stack[j]) /\ stack[i] # stack[j]

\* C25: in a run of mapSchemaCollection, which begins with an empty stack,
\* each name on the processing stack is a strict prefix of every name above
\* it, so no name is on the stack twice, and no call of mapObjectType finds
\* its assigned name on the stack: the short-circuit branch is never taken.
C25_ShortCircuitNeverTaken ==
  /\ [](\A r \in Runs : PrefixChain(Context(r).processingStack))
  /\ [][\A r \in Runs :
          (Handled(r) /\ DispatchRule(call[r][1].schema) = "object") =>
            /\ ~Includes(Context(r).processingStack, call[r][1].name)
            /\ status'[r] = "mapping" =>
                 Context(r).processingStack' =
                   Append(Context(r).processingStack, call[r][1].name)]_vars

C25_Witness ==
  \E r \in Runs :
    /\ supplied[r].processingStack = <<>>
    /\ status[r] = "mapping"
    /\ Len(Context(r).processingStack) >= 3
    /\ call[r] # <<>>
    /\ DispatchRule(call[r][1].schema) = "object"

\* the tokens of a struct field after its name and the blank
FieldType(field) ==
  LET blank == CHOOSE i \in 1..Len(field) :
                 field[i] = " " /\ \A j \in 1..(i - 1) : field[j] # " "
  IN SubSeq(field, blank + 1, Len(field))

\* the number of pointer markers a rendered type starts with
RECURSIVE PointerDepth(_)
PointerDepth(tokens) ==
  IF tokens = <<>> THEN 0
  ELSE IF tokens[1] = "*" THEN 1 + PointerDepth(Tail(tokens))
  ELSE IF tokens[1] = "*interface{}" THEN 1
  ELSE 0

\* C28: in a struct rendered by Emitter A, the type of every field starts
\* with at most one pointer marker, whatever the property's required flag
\* and its type's nullable flag.
C28_SinglePointer ==
  \A r \in Runs :
    Rendered(r) =>
      \A k \in 1..Len(registry[r]) :
        registry[r][k].def.kind = "object" =>
          LET fields == FieldLines(goText[r].decls[k])
          IN \A i \in 1..Len(fields) : PointerDepth(FieldType(fields[i])) <= 1

\* what a line of a Go constant block assigns: the counter, a string
\* literal, or nothing (the line repeats the expression above it)
ConstExpression(line) ==
  IF \E t \in 1..Len(line) : line[t] = " = iota" THEN "iota"
  ELSE IF \E t \in 1..Len(line) : line[t] = " = " THEN "string"
  ELSE "none"

\* the value of the constant on line i of a constant block under Go's rules:
\* the counter is the 0-based position of the line, and a line without an
\* expression repeats the nearest expression above it
ConstValue(lines, i) ==
  LET explicit == { j \in 1..i : ConstExpression(lines[j]) # "none" }
  IN IF explicit = {} THEN [kind |-> "invalid"]
     ELSE LET j == CHOOSE x \in explicit : \A y \in explicit : y <= x
          IN IF ConstExpression(lines[j]) = "iota"
             THEN [kind |-> "number", n |-> i - 1]
             ELSE [kind |-> "string"]

\* C29: for an Enum rendered by Emitter A, the constant emitted for a value
\* that is not a string denotes that value: the constant at index i, which
\* the counter makes i, equals Enum.values[i].value, also when the value
\* follows a string value.
C29_GoEnumValues ==
  \A r \in Runs :
    Rendered(r) =>
      \A k \in 1..Len(registry[r]) :
        registry[r][k].def.kind = "enum" =>
          LET values == registry[r][k].def.values
              consts == LinesStarting(goText[r].decls[k], "\t")
          IN /\ Len(consts) = Len(values)
             /\ \A i \in 1..Len(values) :
                  ~values[i].value.str =>
                    ConstValue(consts, i) =
                      [kind |-> "number", n |-> values[i].value.n]

\* the tokens of a line before the first token that is one of stops
RECURSIVE Until(_, _)
Until(tokens, stops) ==
  IF tokens = <<>> \/ tokens[1] \in stops THEN <<>>
  ELSE <<tokens[1]>> \o Until(Tail(tokens), stops)

\* the tokens of a line after the first token that is one of marks
RECURSIVE After(_, _)
After(tokens, marks) ==
  IF tokens = <<>> THEN <<>>
  ELSE IF tokens[1] \in marks THEN Tail(tokens)
  ELSE After(Tail(tokens), marks)

\* the names the declarations of a Go text declare
GoDeclared(text) ==
  LET lines == UNION { { text.decls[k][i] : i \in 1..Len(text.decls[k]) }
                       : k \in 1..Len(text.decls) }
      heads == { l \in lines : l # <<>> /\ l[1] = "type " }
  IN { Until(Tail(l), {" ", " struct {"}) : l \in heads }

\* the names the declarations of a TypeScript text declare
TsDeclared(text) ==
  LET lines == UNION { { text.decls[k][i] : i \in 1..Len(text.decls[k]) }
                       : k \in 1..Len(text.decls) }
      heads == { l \in lines :
                   /\ l # <<>>
                   /\ l[1] \in {"export ", "type ", "interface ", "enum", "const enum"} }
  IN { Until(After(After(l, {"type ", "interface ", "enum", "const enum"}), {" "}),
             {" = ", " {", " = Array<"})
       : l \in { h \in heads : h[1] \in {"enum", "const enum"}
                               \/ (Len(h) > 1 /\ h[1] = "export "
                                   /\ h[2] \in {"enum", "const enum"}) } }
     \cup
     { Until(After(l, {"type ", "interface "}), {" = ", " {", " = Array<"})
       : l \in { h \in heads : h[1] \in {"type ", "interface "}
                               \/ (Len(h) > 1 /\ h[1] = "export "
                                   /\ h[2] \in {"type ", "interface "}) } }

\* the type name a struct field is declared with
GoFieldTypeName(field) ==
  LET type == Until(FieldType(field), {" BACKTICK"})
  IN IF type # <<>> /\ type[1] = "*" THEN Tail(type) ELSE type

\* the type text an interface property is declared with
TsPropertyTypeName(line) == Until(After(line, {": "}), {";"})

\* the lines of an interface that declare a property
TsPropertyLines(decl) ==
  SelectSeq(decl, LAMBDA line :
    /\ line # <<>> /\ line[1] = "  "
    /\ PropertyText(line) # <<>>
    /\ PropertyText(line)[1] \notin {"/**", " * ", " * @deprecated", " */",
                                     "[key: string]: "})

\* C27: in the text either emitter renders from a registry returned by
\* mapSchemaCollection, every property whose type is written by bare name
\* (an inline object or enum by its name, a Reference by its target name)
\* names a type that the same text declares.
C27_NamesDeclared ==
  \A r \in Runs :
    Rendered(r) =>
      \A k \in 1..Len(registry[r]) :
        registry[r][k].def.kind = "object" =>
          LET d == registry[r][k].def
              fields == FieldLines(goText[r].decls[k])
              props == TsPropertyLines(tsText[r].decls[k])
          IN \A i \in 1..Len(d.properties) :
               d.properties[i].type.kind \in {"object", "enum", "reference"} =>
                 /\ GoFieldTypeName(fields[i]) \in GoDeclared(goText[r])
                 /\ TsPropertyTypeName(props[i]) \in TsDeclared(tsText[r])

====
